---- MODULE Spec2Model ----
(***************************************************************************)
(* Case-progress persistence of the medbill upload widget:                 *)
(*   handleCaseProgress (src/src/app/api/upload-url/route.ts, 355-629),    *)
(*   the Postgres schema it writes (prisma/migrations/.../migration.sql)   *)
(*   and the Google Sheets mirror saveCaseProgress (src/src/lib/sheets.ts).*)
(*                                                                         *)
(* JSON values are string tokens: numbers are digit strings, booleans are  *)
(* "true"/"false", a missing field is a field outside DOMAIN of the        *)
(* payload.  Submission ids are numbers; 0 stands for "not supplied".      *)
(***************************************************************************)
EXTENDS Integers, Sequences, FiniteSets, TLC

\* ------------------------------------------------------------------ bounds
MaxRequests == 2
MaxClientSids == 1
MaxMirrorCalls == 3
MaxSubmissions == 1
MaxFlushes == 2
MaxBusySubmissions == 2
MaxBusyFlushes == 1
MaxIssueTime == 1
MaxIssued == 2
MaxAlterations == 1
MaxPieces == 6
MaxVerifications == 2

\* flushOutbox(maxRetries: number = 5)
maxRetries == 5

Requests == 1..MaxRequests
ClientSids == 1..MaxClientSids
CaseIds == {"c1", "c2"}

\* ------------------------------------------------------------- JSON values
Undefined == "undefined"
JsNull == "null"
JsonBooleans == {"true", "false"}
JsonNumbers == {"0", "1", "500"}

TypeOf(v) ==
    IF v = Undefined THEN "undefined"
    ELSE IF v = JsNull THEN "object"
    ELSE IF v \in JsonBooleans THEN "boolean"
    ELSE IF v \in JsonNumbers THEN "number"
    ELSE "string"

\* JavaScript truthiness (!x is ~Truthy(x)).
Truthy(v) == v \notin {Undefined, JsNull, "", "0", "false"}

\* data.f in JavaScript: undefined when the object has no such field.
Get(data, f) == IF f \in DOMAIN data THEN data[f] ELSE Undefined

EmptyObject == << >>

\* /^[^\s@]+@[^\s@]+\.[^\s@]+$/ on the e-mail strings the model sends.
EmailRegexTest(s) == s \in {"a@b.co"}

\* --------------------------------------------------------- request inputs
\* The step payloads a client sends (stepData), per step key.
StepInputs ==
    {[step |-> "hospital", data |-> [hospitalName |-> "General"]],
     [step |-> "hospital", data |-> [hospitalName |-> "Mercy"]],
     [step |-> "hospital", data |-> EmptyObject],
     [step |-> "balance",  data |-> [balanceAmount |-> "500", inCollections |-> "true"]],
     [step |-> "balance",  data |-> [balanceAmount |-> "500"]],
     [step |-> "contact",  data |-> [phone |-> "555", email |-> "a@b.co"]],
     [step |-> "contact",  data |-> [phone |-> "555"]],
     [step |-> "future",   data |-> [x |-> "1"]]}

\* req.geo?.city of the platform: absent, or a city name.
GeoCities == {Undefined, "Austin"}

\* A JSON value of the body that is an object, and one that is not.
JsonObject(fields) == [kind |-> "object", value |-> fields]
JsonPrimitive(token) == [kind |-> "primitive", value |-> token]

\* The bodies a client sends that are no well-formed request: text that is
\* no JSON, the JSON values null and 5, and objects with a field missing or
\* ill-typed.
MalformedBodies ==
    {[json |-> "unparseable"],
     [json |-> "null"],
     [json |-> "number"],
     [json |-> "object", currentStep |-> "hospital",
      stepData |-> JsonObject([hospitalName |-> "General"])],
     [json |-> "object", caseId |-> "1", currentStep |-> "hospital",
      stepData |-> JsonObject([hospitalName |-> "General"])],
     [json |-> "object", caseId |-> "c1",
      stepData |-> JsonObject([hospitalName |-> "General"])],
     [json |-> "object", caseId |-> "c1", currentStep |-> "hospital"],
     [json |-> "object", caseId |-> "c1", currentStep |-> "hospital",
      stepData |-> JsonPrimitive(JsNull)],
     [json |-> "object", caseId |-> "c1", currentStep |-> "hospital",
      stepData |-> JsonPrimitive("x")]}

\* body.f: undefined on a primitive and on an object without the field.
Field(body, f) ==
    IF f \in DOMAIN body THEN body[f]
    ELSE IF f = "stepData" THEN JsonPrimitive(Undefined)
    ELSE Undefined

\* What the handler throws before its structure checks answer: req.json()
\* rejects text that is no JSON, and body.caseId of null is a TypeError.
\* "" when nothing is thrown.
thrownOnBody(body) ==
    IF body.json = "unparseable" THEN "SyntaxError"
    ELSE IF body.json = "null" THEN "TypeError"
    ELSE ""

\* !v || typeof v !== 'object' of a stepData value.
notAnObject(v) ==
    IF v.kind = "object" THEN FALSE
    ELSE ~Truthy(v.value) \/ TypeOf(v.value) # "object"

\* The structure checks of the handler: the error of the first check that
\* fails, "ok" when all pass.
structureError(body) ==
    IF ~Truthy(Field(body, "caseId")) \/ TypeOf(Field(body, "caseId")) # "string"
    THEN "caseId is required and must be a string"
    ELSE IF ~Truthy(Field(body, "currentStep"))
            \/ TypeOf(Field(body, "currentStep")) # "string"
    THEN "currentStep is required and must be a string"
    ELSE IF notAnObject(Field(body, "stepData"))
    THEN "stepData is required and must be an object"
    ELSE "ok"

\* -------------------------------------------------------------- validation
\* The step names validateStepData has a case for.
KnownSteps == {"hospital", "billType", "balance", "insurance", "contact"}

\* A validator with a closed set of steps: a step it has no case for is
\* rejected.
validateStepDataClosed(currentStep, stepData) ==
    IF currentStep \in KnownSteps THEN "ok" ELSE "unknown step"

\* A validator that accepts every payload.
validateStepDataAcceptAll(currentStep, stepData) == "ok"

\* A validator that checks the required field of each step and nothing else.
validateStepDataRequiredOnly(currentStep, stepData) ==
    CASE currentStep = "hospital" ->
            IF ~Truthy(Get(stepData, "hospitalName"))
               \/ TypeOf(Get(stepData, "hospitalName")) # "string"
            THEN "hospitalName is required and must be a string"
            ELSE "ok"
      [] currentStep = "billType" ->
            IF ~Truthy(Get(stepData, "billType"))
               \/ TypeOf(Get(stepData, "billType")) # "string"
            THEN "billType is required and must be a string"
            ELSE "ok"
      [] currentStep = "balance" ->
            IF Get(stepData, "balanceAmount") = Undefined
               \/ TypeOf(Get(stepData, "balanceAmount")) # "number"
            THEN "balanceAmount is required and must be a number"
            ELSE "ok"
      [] currentStep = "insurance" ->
            IF ~Truthy(Get(stepData, "insuranceStatus"))
               \/ TypeOf(Get(stepData, "insuranceStatus")) # "string"
            THEN "insuranceStatus is required and must be a string"
            ELSE "ok"
      [] currentStep = "contact" ->
            IF ~Truthy(Get(stepData, "phone"))
               \/ TypeOf(Get(stepData, "phone")) # "string"
            THEN "phone is required and must be a string"
            ELSE "ok"
      [] OTHER -> "ok"

validateStepData(currentStep, stepData) ==
    CASE currentStep = "hospital" ->
            IF ~Truthy(Get(stepData, "hospitalName"))
               \/ TypeOf(Get(stepData, "hospitalName")) # "string"
            THEN "hospitalName is required and must be a string"
            ELSE "ok"
      [] currentStep = "billType" ->
            IF ~Truthy(Get(stepData, "billType"))
               \/ TypeOf(Get(stepData, "billType")) # "string"
            THEN "billType is required and must be a string"
            ELSE "ok"
      [] currentStep = "balance" ->
            IF Get(stepData, "balanceAmount") = Undefined
               \/ TypeOf(Get(stepData, "balanceAmount")) # "number"
            THEN "balanceAmount is required and must be a number"
            ELSE IF Get(stepData, "inCollections") # Undefined
                    /\ TypeOf(Get(stepData, "inCollections")) # "boolean"
            THEN "inCollections must be a boolean if provided"
            ELSE "ok"
      [] currentStep = "insurance" ->
            IF ~Truthy(Get(stepData, "insuranceStatus"))
               \/ TypeOf(Get(stepData, "insuranceStatus")) # "string"
            THEN "insuranceStatus is required and must be a string"
            ELSE "ok"
      [] currentStep = "contact" ->
            IF Get(stepData, "email") # Undefined
               /\ TypeOf(Get(stepData, "email")) # "string"
            THEN "email must be a string if provided"
            ELSE IF Get(stepData, "email") # Undefined
                    /\ Truthy(Get(stepData, "email"))
                    /\ ~EmailRegexTest(Get(stepData, "email"))
            THEN "email must be a valid email address"
            ELSE IF ~Truthy(Get(stepData, "phone"))
                    \/ TypeOf(Get(stepData, "phone")) # "string"
            THEN "phone is required and must be a string"
            ELSE IF Get(stepData, "agreedToTerms") # Undefined
                    /\ TypeOf(Get(stepData, "agreedToTerms")) # "boolean"
            THEN "agreedToTerms must be a boolean if provided"
            ELSE "ok"
      [] OTHER -> "ok"

\* body.submissionId || generateUUID(): a supplied id is kept, otherwise a
\* fresh id is drawn (one per request, distinct from every client id).
generateUUID(r) == MaxClientSids + r

\* A handler that draws a fresh id whether or not the body has one.
SubmissionIdAlwaysFresh(r, supplied) == generateUUID(r)

SubmissionIdOf(r, supplied) == IF supplied # 0 THEN supplied ELSE generateUUID(r)

\* stepDataWithCity: a hospital payload without a city takes the geo city.
stepDataWithCity(currentStep, stepData, geoCity) ==
    IF currentStep = "hospital"
       /\ ~Truthy(Get(stepData, "city"))
       /\ Truthy(geoCity)
    THEN [f \in DOMAIN stepData \cup {"city"} |->
            IF f = "city" THEN geoCity ELSE stepData[f]]
    ELSE stepData

\* ------------------------------------------------------------------ store
\* A row of "cases"; present = FALSE stands for "no row with this case_id".
NoCase ==
    [present |-> FALSE, currentStep |-> JsNull, progress |-> EmptyObject,
     contactEmail |-> JsNull, contactPhone |-> JsNull, hospitalName |-> JsNull,
     balanceAmount |-> JsNull, inCollections |-> JsNull]

DenormalizedColumns ==
    {"contactEmail", "contactPhone", "hospitalName", "balanceAmount", "inCollections"}

\* new Prisma.Decimal(n): the decimal with the value of the number n.
PrismaDecimal(n) == "dec:" \o n

\* { ...existingCase, [currentStep]: stepData }
updatedProgress(existingCase, currentStep, stepData) ==
    [k \in DOMAIN existingCase \cup {currentStep} |->
        IF k = currentStep THEN stepData ELSE existingCase[k]]

\* The denormalized columns updateData defines (switch (currentStep)); a
\* column outside the DOMAIN of the result is left undefined.
updateData(currentStep, stepData) ==
    CASE currentStep = "contact" ->
            IF Get(stepData, "email") # Undefined
            THEN [contactEmail |-> IF Truthy(stepData.email) THEN stepData.email ELSE JsNull,
                  contactPhone |-> Get(stepData, "phone")]
            ELSE [contactPhone |-> Get(stepData, "phone")]
      [] currentStep = "hospital" ->
            IF Truthy(Get(stepData, "hospitalName"))
            THEN [hospitalName |-> stepData.hospitalName]
            ELSE EmptyObject
      [] currentStep = "balance" ->
            LET amt == IF Get(stepData, "balanceAmount") # Undefined
                       THEN [balanceAmount |-> PrismaDecimal(stepData.balanceAmount)]
                       ELSE EmptyObject
            IN  IF Get(stepData, "inCollections") # Undefined
                THEN [c \in DOMAIN amt \cup {"inCollections"} |->
                        IF c = "inCollections" THEN stepData.inCollections ELSE amt[c]]
                ELSE amt
      [] OTHER -> EmptyObject

\* An update that writes every denormalized column, NULL where undefined.
caseUpsertNulling(row, currentStep, progress, cols) ==
    [c \in DOMAIN NoCase |->
        IF c = "present" THEN TRUE
        ELSE IF c = "currentStep" THEN currentStep
        ELSE IF c = "progress" THEN progress
        ELSE IF c \in DOMAIN cols THEN cols[c]
        ELSE JsNull]

\* tx.case.upsert({ where: {caseId}, create: createData, update: updateData })
\* as INSERT ... ON CONFLICT (case_id) DO UPDATE: on an existing row only the
\* defined fields are written, on a missing row the undefined columns are NULL.
caseUpsert(row, currentStep, progress, cols) ==
    [c \in DOMAIN NoCase |->
        IF c = "present" THEN TRUE
        ELSE IF c = "currentStep" THEN currentStep
        ELSE IF c = "progress" THEN progress
        ELSE IF c \in DOMAIN cols THEN cols[c]
        ELSE IF row.present THEN row[c]
        ELSE JsNull]

\* existingCase?.progress when it is an object, {} otherwise.
existingProgressOf(existingCase) ==
    IF existingCase.present THEN existingCase.progress ELSE EmptyObject

\* A log without the unique index: no insert is ever a violation.
uniqueViolationIgnored(log, submissionId) == FALSE

\* The unique index case_progress_events_submission_id_key: an insert of a
\* submission id the log already holds is a violation (P2002).
uniqueViolation(log, submissionId) ==
    \E i \in DOMAIN log : log[i].submissionId = submissionId

\* An upsert that decides on the row findUnique returned: create when the
\* read found none, update otherwise.
upsertCreatesFromFind(row, existingCase) == ~existingCase.present

\* The branch the upsert takes: it inserts exactly when the table holds no
\* row for the case at the moment of the statement (ON CONFLICT decides on
\* the table, not on what findUnique saw).
upsertCreates(row, existingCase) == ~row.present

\* The error codes a failing store call reports.
RetryableCodes == {"P1001", "P1008", "P1017"}
DbFaults == {"P1001", "P2028"}
\* Postgres: a statement in a transaction an earlier statement has failed in.
TxAbortedCode == "25P02"

\* isRetryable and the status of the dbError response.
isRetryable(code) == code \in RetryableCodes

NoResp == [status |-> 0]

\* A dbError response that answers 500 whatever the classification.
dbErrorResponseAlways500(code) ==
    [status |-> 500, success |-> FALSE, error |-> code, retryable |-> isRetryable(code)]

dbErrorResponse(code) ==
    [status |-> IF isRetryable(code) THEN 503 ELSE 500,
     success |-> FALSE, error |-> code, retryable |-> isRetryable(code)]

validationResponse(msg) ==
    [status |-> 400, success |-> FALSE, error |-> msg]

\* The response of the outer catch of the handler.
unexpectedErrorResponse(message) ==
    [status |-> 500, success |-> FALSE, error |-> message, retryable |-> FALSE]

\* A success response that never carries the warning.
successResponseNoWarning(caseId, currentStep, submissionId, sheetsWarning) ==
    [status |-> 200, success |-> TRUE, caseId |-> caseId,
     currentStep |-> currentStep, submissionId |-> submissionId]

successResponse(caseId, currentStep, submissionId, sheetsWarning) ==
    IF sheetsWarning # ""
    THEN [status |-> 200, success |-> TRUE, caseId |-> caseId,
          currentStep |-> currentStep, submissionId |-> submissionId,
          warning |-> sheetsWarning]
    ELSE [status |-> 200, success |-> TRUE, caseId |-> caseId,
          currentStep |-> currentStep, submissionId |-> submissionId]

\* ----------------------------------------------------------- sheet mirror
\* DATA_COLUMN_MAP: data key -> column name of the spreadsheet.
DATA_COLUMN_MAP ==
    [caseId |-> "Case ID", email |-> "Email", phone |-> "Phone",
     hospitalName |-> "Hospital name", billType |-> "Bill type",
     balanceAmount |-> "Balance amount", inCollections |-> "In collections",
     insuranceStatus |-> "Insurance status", gcsFileUrl |-> "GCS file URL",
     currentStep |-> "Last Done Page", city |-> "State",
     utm_source |-> "UTM Source", utm_campaign |-> "UTM Campaign",
     lpInputTime |-> "LP Input Time"]

\* The header rows a spreadsheet may have: the documented one, one that has
\* lost its "Case ID" column, and an empty sheet.
FullHeaders ==
    <<"Case ID", "Email", "Phone", "Hospital name", "Bill type",
      "Balance amount", "In collections", "Insurance status", "GCS file URL",
      "Last Done Page", "State", "UTM Source", "UTM Campaign", "LP Input Time">>
DriftHeaders == Tail(FullHeaders)
NoHeaders == << >>

\* a || b in JavaScript.
Or(a, b) == IF Truthy(a) THEN a ELSE b

Put(f, k, v) == [x \in DOMAIN f \cup {k} |-> IF x = k THEN v ELSE f[x]]
PutIf(cond, f, k, v) == IF cond THEN Put(f, k, v) ELSE f

\* new Date().toISOString() at logical time t.
toISOString(t) == "T" \o ToString(t)

\* The mapping getColumnMapping builds from a header row: header -> index,
\* empty headers skipped, a repeated header keeping its last index.
columnMapOf(hs) ==
    [h \in {hs[i] : i \in DOMAIN hs} \ {""} |->
        CHOOSE i \in DOMAIN hs :
            hs[i] = h /\ \A j \in DOMAIN hs : hs[j] = h => j <= i]

\* UTM parameters written whether or not the case has a row.
writesUtmAlways(existingRow) == TRUE

\* if (!existingRow): the UTM parameters are saved only when no row of the
\* case was found.
writesUtm(existingRow) == existingRow = 0

\* dataToSave of saveCaseProgress for the steps of StepInputs (hospital,
\* billType, balance, insurance, contact, and unknown steps).
dataToSave(caseId, currentStep, stepData, existingRow, t) ==
    LET base == [caseId |-> caseId, currentStep |-> currentStep]
        g(f) == Get(stepData, f)
        byStep ==
          CASE currentStep = "hospital" ->
                 LET d1 == Put(Put(base, "hospitalName", Or(g("hospitalName"), "")),
                               "hospitalId", Or(g("hospitalId"), ""))
                     d2 == PutIf(Truthy(g("city")), d1, "city", g("city"))
                     d3 == PutIf(writesUtm(existingRow) /\ Truthy(g("utm_source")),
                                 d2, "utm_source", g("utm_source"))
                 IN  PutIf(writesUtm(existingRow) /\ Truthy(g("utm_campaign")),
                           d3, "utm_campaign", g("utm_campaign"))
            [] currentStep = "billType" ->
                 Put(base, "billType", Or(g("billType"), ""))
            [] currentStep = "balance" ->
                 Put(Put(base, "balanceAmount", Or(g("balanceAmount"), "")),
                     "inCollections", Or(g("inCollections"), "false"))
            [] currentStep = "insurance" ->
                 Put(base, "insuranceStatus", Or(g("insuranceStatus"), ""))
            [] currentStep = "contact" ->
                 Put(Put(Put(base, "email", Or(g("email"), "")),
                         "phone", Or(g("phone"), "")),
                     "agreedToTerms", Or(g("agreedToTerms"), "false"))
            [] OTHER ->
                 LET e1 == PutIf(Truthy(g("email")), base, "email", g("email"))
                     e2 == PutIf(Truthy(g("phone")), e1, "phone", g("phone"))
                     e3 == PutIf(Truthy(g("hospitalName")), e2, "hospitalName", g("hospitalName"))
                     e4 == PutIf(Truthy(g("billType")), e3, "billType", g("billType"))
                     e5 == PutIf(g("balanceAmount") # Undefined, e4, "balanceAmount", g("balanceAmount"))
                     e6 == PutIf(g("inCollections") # Undefined, e5, "inCollections", g("inCollections"))
                     e7 == PutIf(Truthy(g("insuranceStatus")), e6, "insuranceStatus", g("insuranceStatus"))
                 IN  PutIf(g("agreedToTerms") # Undefined, e7, "agreedToTerms", g("agreedToTerms"))
    IN  Put(byStep, "lpInputTime", toISOString(t))

\* String(value) of a cell, after the boolean conversions of the row builders.
cellString(dataKey, value) ==
    IF value \in JsonBooleans
    THEN IF dataKey = "inCollections"
         THEN (IF value = "true" THEN "yes" ELSE "no")
         ELSE (IF value = "true" THEN "TRUE" ELSE "FALSE")
    ELSE value

\* The loop of appendRow / updateRow over DATA_COLUMN_MAP: the cells of
\* `row` the data has a value and the column map an index for are replaced.
mapDataToRow(row, data, columnMap) ==
    [i \in DOMAIN row |->
        LET keys == {k \in DOMAIN DATA_COLUMN_MAP :
                        /\ DATA_COLUMN_MAP[k] \in DOMAIN columnMap
                        /\ columnMap[DATA_COLUMN_MAP[k]] = i
                        /\ Get(data, k) \notin {Undefined, JsNull, ""}}
        IN  IF keys = {} THEN row[i]
            ELSE LET k == CHOOSE k \in keys : TRUE IN cellString(k, data[k])]

\* new Array(headers.length).fill('')
blankRow(hs) == [i \in DOMAIN hs |-> ""]

\* The row updateRow starts from: the cells read, padded or cut to the headers.
paddedRow(hs, currentRow) ==
    [i \in DOMAIN hs |-> IF i \in DOMAIN currentRow THEN currentRow[i] ELSE ""]

\* findCaseRow over the "Case ID" column: the 1-based sheet row of the first
\* data row holding caseId, 0 for null.  Data row k is sheet row k + 1.
findCaseRow(hs, rows, caseId) ==
    IF "Case ID" \notin DOMAIN columnMapOf(hs) THEN 0
    ELSE LET col == columnMapOf(hs)["Case ID"]
             hits == {k \in DOMAIN rows : rows[k][col] = caseId}
         IN  IF hits = {} THEN 0
             ELSE 1 + (CHOOSE k \in hits : \A j \in hits : k <= j)

\* The errors a Sheets API call throws, and the message the catch blocks of
\* sheets.ts hand to the route (403 errors are re-worded, others re-thrown).
ApiErrors == {"permission", "quota"}

thrownMessage(e) ==
    CASE e = "permission" -> "Permission denied: the service account does not have access"
      [] e = "quota" -> "Quota exceeded"
      [] e = "noheaders" -> "Spreadsheet headers not found. Please ensure the spreadsheet has headers."
      [] OTHER -> ""

\* sheetsWarning = err?.message || 'Failed to save to Google Sheets. ...'
sheetsWarningOf(e) ==
    IF thrownMessage(e) # "" THEN thrownMessage(e)
    ELSE "Failed to save to Google Sheets. Check server logs for details."

\* ------------------------------------------------------------------ state
VARIABLES
    events,            \* case_progress_events, in commit order
    cases,             \* cases: case_id -> row
    storeAbortsTx,     \* the store fails every statement of a transaction
                       \* a statement has failed in (Postgres) or lets it go on
    sheetsClient,      \* `sheets` of sheets.ts is initialised
    spreadsheetId,     \* SPREADSHEET_ID is set
    headers,           \* row 1 of the sheet
    sheetRows,         \* the data rows of the sheet (sheet rows 2, 3, ...)
    now,               \* logical clock behind new Date()
    pc,                \* where each request's handler stands
    req,               \* the request a handler works on
    dup,               \* the handler caught P2002 on its event insert
    existingCase,      \* the row findUnique has read (NoCase for null)
    existingRow,       \* existingRow of saveCaseProgress (0 for null)
    toSave,            \* dataToSave of saveCaseProgress
    currentRow,        \* the cells updateRow has read
    resp,              \* the response sent (NoResp before)
    mirrored,          \* what saveCaseProgress did for the request
    mixpanelToken,     \* MIXPANEL_TOKEN is set
    trackPc,           \* where the handler of /api/mixpanel/track stands
    trackBody,         \* the body it was sent
    eventData,         \* the event it has passed to fetch (NoEvent before)
    mixpanelReply,     \* how the call of api.mixpanel.com settled
    trackResp,         \* the response of /api/mixpanel/track
    stepInput,         \* a (currentStep, stepData) pair handed to validateStepData
    verdict,           \* what validateStepData returned for it
    outbox,            \* the outbox in localStorage
    attempts,          \* the runs of the client's saveCaseProgress
    flushes,           \* the runs of flushOutbox: loaded items, position,
                       \* updatedOutbox and results
    uuids,             \* how many ids the client's generateUUID has drawn
    issued,            \* the tokens signBillToken has returned, with the
                       \* caseId each was signed for
    billToken,         \* the token a holder has (NoToken before)
    alterations,       \* how many times the holder has changed it
    verified           \* the calls of verifyBillToken: token and outcome

vars == <<events, cases, storeAbortsTx, sheetsClient, spreadsheetId, headers,
          sheetRows, now, pc, req, dup, existingCase, existingRow, toSave,
          currentRow, resp, mirrored, mixpanelToken, trackPc, trackBody,
          eventData, mixpanelReply, trackResp, stepInput, verdict, outbox,
          attempts, flushes, uuids, issued, billToken,
          alterations, verified>>

storeVars == <<events, cases>>
envVars == <<storeAbortsTx, sheetsClient, spreadsheetId, headers>>
mirrorLocals == <<existingRow, toSave, currentRow>>
handlerVars == <<sheetRows, now, pc, req, dup, existingCase, mirrorLocals, resp,
                 mirrored>>
trackVars == <<mixpanelToken, trackPc, trackBody, eventData, mixpanelReply, trackResp>>
checkVars == <<stepInput, verdict>>
\* The state of the components beside the case-progress handler.
clientVars == <<outbox, attempts, flushes, uuids>>
tokenVars == <<issued, billToken, alterations, verified>>
peerVars == <<trackVars, checkVars, clientVars, tokenVars>>

NoEvent == [event |-> Undefined]
NoInput == [step |-> Undefined]

\* No client run has started.
ClientIdle ==
    /\ outbox = << >>
    /\ attempts = << >>
    /\ flushes = << >>
    /\ uuids = 0

NoToken == << >>

\* No token has been signed or presented.
TokenIdle ==
    /\ issued = {}
    /\ billToken = NoToken
    /\ alterations = 0
    /\ verified = << >>

\* The other components at rest.
PeersIdle ==
    /\ mixpanelToken = FALSE
    /\ trackPc = "idle"
    /\ trackBody = [json |-> "none"]
    /\ eventData = NoEvent
    /\ mixpanelReply = "none"
    /\ trackResp = NoResp
    /\ stepInput = NoInput
    /\ verdict = "none"
    /\ ClientIdle
    /\ TokenIdle

NoReq == [submissionId |-> 0]

TxStages == {"create", "find", "upsert"}

\* The event insert of request q is written and not yet committed.
HoldsEvent(q) == pc[q] \in {"find", "upsert"} /\ ~dup[q]

Init ==
    /\ events = << >>
    /\ cases = [c \in CaseIds |-> NoCase]
    /\ storeAbortsTx \in BOOLEAN
    /\ \E env \in {<<TRUE, TRUE, FullHeaders>>, <<TRUE, TRUE, DriftHeaders>>,
                   <<FALSE, TRUE, FullHeaders>>, <<TRUE, FALSE, FullHeaders>>} :
          /\ sheetsClient = env[1]
          /\ spreadsheetId = env[2]
          /\ headers = env[3]
    /\ sheetRows = << >>
    /\ now = 0
    /\ pc = [r \in Requests |-> "idle"]
    /\ req = [r \in Requests |-> NoReq]
    /\ dup = [r \in Requests |-> FALSE]
    /\ existingCase = [r \in Requests |-> NoCase]
    /\ existingRow = [r \in Requests |-> 0]
    /\ toSave = [r \in Requests |-> EmptyObject]
    /\ currentRow = [r \in Requests |-> << >>]
    /\ resp = [r \in Requests |-> NoResp]
    /\ mirrored = [r \in Requests |-> "no"]
    /\ PeersIdle

\* What is kept of a request once it is answered: its identity, not its payload.
Answered(request) == [request EXCEPT !.stepData = EmptyObject]

\* The handler ends: its response is sent and its locals are dropped.
Finish(r, response) ==
    /\ resp' = [resp EXCEPT ![r] = response]
    /\ req' = [req EXCEPT ![r] = Answered(@)]
    /\ pc' = [pc EXCEPT ![r] = "done"]
    /\ existingCase' = [existingCase EXCEPT ![r] = NoCase]
    /\ existingRow' = [existingRow EXCEPT ![r] = 0]
    /\ toSave' = [toSave EXCEPT ![r] = EmptyObject]
    /\ currentRow' = [currentRow EXCEPT ![r] = << >>]

\* The case ids requests have named so far.
UsedCaseIds == {req[q].caseId : q \in {q \in DOMAIN req : req[q] # NoReq}}

\* Case ids are opaque: a request names a case id seen before or the next
\* unseen one.
FreshCaseIds ==
    IF UsedCaseIds = {} THEN {"c1"}
    ELSE IF UsedCaseIds = {"c1"} THEN {"c2"}
    ELSE {}

\* The bodies of the requests that pass the structure checks.
WellFormedBodies ==
    {[json |-> "object", caseId |-> caseId, currentStep |-> in.step,
      stepData |-> JsonObject(in.data), submissionId |-> supplied] :
        caseId \in UsedCaseIds \cup FreshCaseIds,
        supplied \in ClientSids \cup {0},
        in \in StepInputs}

\* The handler answers before it has a request to work on.
Reject(r, response) ==
    /\ resp' = [resp EXCEPT ![r] = response]
    /\ pc' = [pc EXCEPT ![r] = "done"]
    /\ UNCHANGED <<req, existingCase, mirrorLocals>>

\* handleCaseProgress up to the transaction: the body is parsed and
\* validated, the submission id fixed and the geo city added.  Request slots
\* are taken in order.
Receive(r) ==
    /\ pc[r] = "idle"
    /\ \A q \in DOMAIN pc : q < r => pc[q] # "idle"
    /\ \E body \in MalformedBodies \cup WellFormedBodies, geoCity \in GeoCities :
          /\ Field(body, "currentStep") # "hospital" => geoCity = Undefined
          /\ IF thrownOnBody(body) # ""
             THEN Reject(r, unexpectedErrorResponse(thrownOnBody(body)))
             ELSE IF structureError(body) # "ok"
             THEN Reject(r, validationResponse(structureError(body)))
             ELSE LET stepData == body.stepData.value
                      validation == validateStepData(body.currentStep, stepData)
                      request == [submissionId |-> SubmissionIdOf(r, body.submissionId),
                                  supplied |-> body.submissionId,
                                  caseId |-> body.caseId,
                                  currentStep |-> body.currentStep,
                                  stepData |-> stepDataWithCity(body.currentStep,
                                                                stepData, geoCity)]
                  IN  IF validation # "ok"
                      THEN /\ resp' = [resp EXCEPT ![r] = validationResponse(validation)]
                           /\ req' = [req EXCEPT ![r] = Answered(request)]
                           /\ pc' = [pc EXCEPT ![r] = "done"]
                           /\ UNCHANGED <<existingCase, mirrorLocals>>
                      ELSE /\ req' = [req EXCEPT ![r] = request]
                           /\ pc' = [pc EXCEPT ![r] = "create"]
                           /\ UNCHANGED <<existingCase, resp, mirrorLocals>>
    /\ UNCHANGED <<storeVars, envVars, peerVars, sheetRows, now, dup, mirrored>>

\* tx.caseProgressEvent.create inside the transaction.  The unique index on
\* submission_id makes the insert wait for an uncommitted row with the same
\* id and fail with P2002 on a committed one; the handler catches P2002.
TxCreateEvent(r) ==
    /\ pc[r] = "create"
    /\ \A q \in Requests \ {r} :
          HoldsEvent(q) => req[q].submissionId # req[r].submissionId
    /\ dup' = [dup EXCEPT ![r] = uniqueViolation(events, req[r].submissionId)]
    /\ pc' = [pc EXCEPT ![r] = "find"]
    /\ UNCHANGED <<storeVars, envVars, peerVars, sheetRows, now, req, existingCase, mirrored,
                   mirrorLocals, resp>>

\* tx.case.findUnique: the committed row is read (READ COMMITTED, no lock).
\* In a transaction the failed insert has aborted, the statement fails and
\* the error leaves the transaction callback.
TxFindCase(r) ==
    /\ pc[r] = "find"
    /\ IF dup[r] /\ storeAbortsTx
       THEN /\ Finish(r, dbErrorResponse(TxAbortedCode))
       ELSE /\ existingCase' = [existingCase EXCEPT ![r] = cases[req[r].caseId]]
            /\ pc' = [pc EXCEPT ![r] = "upsert"]
            /\ UNCHANGED <<req, resp, mirrorLocals>>
    /\ UNCHANGED <<storeVars, envVars, peerVars, sheetRows, now, dup, mirrored>>

\* tx.case.upsert and the commit of the transaction: the event insert (when
\* it was made) and the case row become visible together.  An insert of a
\* case row that exists violates cases_pkey (P2002) and fails the transaction.
TxUpsertCommit(r) ==
    /\ pc[r] = "upsert"
    /\ LET q == req[r]
           row == cases[q.caseId]
           progress == updatedProgress(existingProgressOf(existingCase[r]),
                                       q.currentStep, q.stepData)
       IN  IF upsertCreates(row, existingCase[r]) /\ row.present
           THEN /\ Finish(r, dbErrorResponse("P2002"))
                /\ UNCHANGED storeVars
           ELSE /\ cases' = [cases EXCEPT ![q.caseId] =
                               caseUpsert(row, q.currentStep, progress,
                                          updateData(q.currentStep, q.stepData))]
                /\ events' = IF dup[r] THEN events
                             ELSE Append(events,
                                    [submissionId |-> q.submissionId,
                                     caseId |-> q.caseId,
                                     stepKey |-> q.currentStep,
                                     payload |-> q.stepData])
                /\ pc' = [pc EXCEPT ![r] = "mirror"]
                /\ UNCHANGED <<req, existingCase, mirrorLocals, resp>>
    /\ UNCHANGED <<envVars, peerVars, sheetRows, now, dup, mirrored>>

\* A dbError catch that does not return: after a failed transaction the
\* handler goes on to the mirror.
TxFailNoReturn(r) ==
    /\ pc[r] \in TxStages
    /\ pc' = [pc EXCEPT ![r] = "mirror"]
    /\ UNCHANGED <<storeVars, envVars, peerVars, sheetRows, now, req, dup, existingCase,
                   mirrorLocals, resp, mirrored>>

\* A store call of the transaction fails (connection lost, timeout, ...):
\* the transaction is rolled back and the dbError branch answers.
TxFail(r) ==
    /\ pc[r] \in TxStages
    /\ \E code \in DbFaults : Finish(r, dbErrorResponse(code))
    /\ UNCHANGED <<storeVars, envVars, peerVars, sheetRows, now, dup, mirrored>>

\* The success response of the route, with the warning of a failed mirror.
Respond(r, sheetsWarning) ==
    Finish(r, successResponse(req[r].caseId, req[r].currentStep,
                              req[r].submissionId, sheetsWarning))

SheetsConfigured == sheetsClient /\ spreadsheetId

\* saveCaseProgress when `sheets` or SPREADSHEET_ID is missing: it returns
\* at once, nothing is thrown and the route answers without a warning.
MirrorSkip(r) ==
    /\ pc[r] = "mirror"
    /\ ~SheetsConfigured
    /\ Respond(r, "")
    /\ mirrored' = [mirrored EXCEPT ![r] = "skipped"]
    /\ UNCHANGED <<storeVars, envVars, peerVars, sheetRows, now, dup>>

\* saveCaseProgress up to the write: findCaseRow (a failed lookup is caught
\* and gives null) and the building of dataToSave.
MirrorFind(r) ==
    /\ pc[r] = "mirror"
    /\ SheetsConfigured
    /\ \E lookupOk \in BOOLEAN :
          LET row == IF lookupOk
                     THEN findCaseRow(headers, sheetRows, req[r].caseId)
                     ELSE 0
              data == dataToSave(req[r].caseId, req[r].currentStep,
                                 req[r].stepData, row, now + 1)
          IN  /\ existingRow' = [existingRow EXCEPT ![r] = row]
              /\ toSave' = [toSave EXCEPT ![r] =
                              IF row = 0
                              THEN Put(data, "createdAt", toISOString(now + 1))
                              ELSE data]
              /\ pc' = [pc EXCEPT ![r] = IF row = 0 THEN "append" ELSE "update"]
    /\ now' = now + 1
    /\ UNCHANGED <<storeVars, envVars, peerVars, sheetRows, req, dup, existingCase, mirrored,
                   currentRow, resp>>

\* appendRow: getHeaders (throws), getColumnMapping (a failure is caught and
\* gives {}), the headers check, and values.append (throws).
MirrorAppend(r) ==
    /\ pc[r] = "append"
    /\ \E e \in ApiErrors \cup {"none"}, mappingOk \in BOOLEAN :
          LET columnMap == IF mappingOk THEN columnMapOf(headers) ELSE EmptyObject
              thrown == IF e # "none" THEN e
                        ELSE IF Len(headers) = 0 THEN "noheaders"
                        ELSE "none"
          IN  IF thrown # "none"
              THEN /\ Respond(r, sheetsWarningOf(thrown))
                   /\ mirrored' = [mirrored EXCEPT ![r] = "thrown"]
                   /\ UNCHANGED sheetRows
              ELSE /\ sheetRows' = Append(sheetRows,
                                     mapDataToRow(blankRow(headers), toSave[r], columnMap))
                   /\ Respond(r, "")
                   /\ mirrored' = [mirrored EXCEPT ![r] = "wrote"]
    /\ UNCHANGED <<storeVars, envVars, peerVars, now, dup>>

\* updateRow up to its write: getHeaders, getColumnMapping and the read of
\* the row's cells (a failed call throws).
MirrorUpdateRead(r) ==
    /\ pc[r] = "update"
    /\ \E e \in ApiErrors \cup {"none"} :
          LET thrown == IF e # "none" THEN e
                        ELSE IF Len(headers) = 0 THEN "noheaders"
                        ELSE "none"
          IN  IF thrown # "none"
              THEN /\ Respond(r, sheetsWarningOf(thrown))
                   /\ mirrored' = [mirrored EXCEPT ![r] = "thrown"]
              ELSE /\ currentRow' = [currentRow EXCEPT ![r] = sheetRows[existingRow[r] - 1]]
                   /\ pc' = [pc EXCEPT ![r] = "write"]
                   /\ UNCHANGED <<req, existingCase, existingRow, toSave, resp, mirrored>>
    /\ UNCHANGED <<storeVars, envVars, peerVars, sheetRows, now, dup>>

\* updateRow's write: the cells read, overlaid with the mapped data, replace
\* the whole row.
MirrorUpdateWrite(r) ==
    /\ pc[r] = "write"
    /\ \E e \in ApiErrors \cup {"none"}, mappingOk \in BOOLEAN :
          LET columnMap == IF mappingOk THEN columnMapOf(headers) ELSE EmptyObject
          IN  IF e # "none"
              THEN /\ Respond(r, sheetsWarningOf(e))
                   /\ mirrored' = [mirrored EXCEPT ![r] = "thrown"]
                   /\ UNCHANGED sheetRows
              ELSE /\ sheetRows' = [sheetRows EXCEPT ![existingRow[r] - 1] =
                                      mapDataToRow(paddedRow(headers, currentRow[r]),
                                                   toSave[r], columnMap)]
                   /\ Respond(r, "")
                   /\ mirrored' = [mirrored EXCEPT ![r] = "wrote"]
    /\ UNCHANGED <<storeVars, envVars, peerVars, now, dup>>

Next ==
    \E r \in Requests :
        \/ Receive(r)
        \/ TxCreateEvent(r)
        \/ TxFindCase(r)
        \/ TxUpsertCommit(r)
        \/ TxFail(r)
        \/ MirrorSkip(r)
        \/ MirrorFind(r)
        \/ MirrorAppend(r)
        \/ MirrorUpdateRead(r)
        \/ MirrorUpdateWrite(r)

Spec == Init /\ [][Next]_vars

\* ------------------------------------------------- the mirror on one case
\* The mirror calls of the submissions of one case, on a configured sheet
\* with the documented header row.  Each submission is valid and its
\* transaction commits without overlapping another transaction; the mirror
\* calls that follow overlap freely.
MirrorCalls == 1..MaxMirrorCalls

\* The payloads submitted for the case.
MirrorInputs ==
    {[step |-> "hospital", data |-> [hospitalName |-> "General", utm_source |-> "google"]],
     [step |-> "hospital", data |-> [hospitalName |-> "Mercy", utm_source |-> "bing"]],
     [step |-> "balance",  data |-> [balanceAmount |-> "500", inCollections |-> "true"]],
     [step |-> "balance",  data |-> [balanceAmount |-> "0", inCollections |-> "false"]]}

InitMirror ==
    /\ events = << >>
    /\ cases = [c \in CaseIds |-> NoCase]
    /\ storeAbortsTx = TRUE
    /\ sheetsClient = TRUE
    /\ spreadsheetId = TRUE
    /\ headers = FullHeaders
    /\ sheetRows = << >>
    /\ now = 0
    /\ pc = [r \in MirrorCalls |-> "idle"]
    /\ req = [r \in MirrorCalls |-> NoReq]
    /\ dup = [r \in MirrorCalls |-> FALSE]
    /\ existingCase = [r \in MirrorCalls |-> NoCase]
    /\ existingRow = [r \in MirrorCalls |-> 0]
    /\ toSave = [r \in MirrorCalls |-> EmptyObject]
    /\ currentRow = [r \in MirrorCalls |-> << >>]
    /\ resp = [r \in MirrorCalls |-> NoResp]
    /\ mirrored = [r \in MirrorCalls |-> "no"]
    /\ PeersIdle

\* handleCaseProgress from its entry to the commit of its transaction, for
\* a valid body without submissionId, run without another transaction in
\* between: the event is inserted, the row read and the case upserted.
SubmitCommitted(r) ==
    /\ pc[r] = "idle"
    /\ \A q \in MirrorCalls : q < r => pc[q] # "idle"
    /\ \E in \in MirrorInputs :
          LET caseId == "c1"
              row == cases[caseId]
              progress == updatedProgress(existingProgressOf(row), in.step, in.data)
          IN  /\ validateStepData(in.step, in.data) = "ok"
              /\ ~uniqueViolation(events, generateUUID(r))
              /\ req' = [req EXCEPT ![r] =
                            [submissionId |-> generateUUID(r), supplied |-> 0,
                             caseId |-> caseId, currentStep |-> in.step,
                             stepData |-> stepDataWithCity(in.step, in.data, Undefined)]]
              /\ events' = Append(events,
                              [submissionId |-> generateUUID(r), caseId |-> caseId,
                               stepKey |-> in.step, payload |-> in.data])
              /\ cases' = [cases EXCEPT ![caseId] =
                              caseUpsert(row, in.step, progress,
                                         updateData(in.step, in.data))]
              /\ pc' = [pc EXCEPT ![r] = "mirror"]
    /\ UNCHANGED <<envVars, peerVars, sheetRows, now, dup, existingCase, mirrorLocals, resp,
                   mirrored>>

NextMirror ==
    \E r \in MirrorCalls :
        \/ SubmitCommitted(r)
        \/ MirrorFind(r)
        \/ MirrorAppend(r)
        \/ MirrorUpdateRead(r)
        \/ MirrorUpdateWrite(r)

MirrorSpec == InitMirror /\ [][NextMirror]_vars

\* --------------------------------------------- the mirror that may not return
\* A call of the Sheets API that never settles: the promise the handler
\* awaits (values.get of findCaseRow and updateRow, values.append,
\* values.update) stays pending, and nothing in saveCaseProgress or in the
\* route races it against a timer.
SheetsCallHangs(r) ==
    /\ pc[r] \in {"mirror", "append", "update", "write"}
    /\ pc' = [pc EXCEPT ![r] = "hung"]
    /\ UNCHANGED <<storeVars, envVars, peerVars, sheetRows, now, req, dup, existingCase,
                   mirrorLocals, resp, mirrored>>

NextLive ==
    \E r \in MirrorCalls :
        \/ SubmitCommitted(r)
        \/ MirrorFind(r)
        \/ MirrorAppend(r)
        \/ MirrorUpdateRead(r)
        \/ MirrorUpdateWrite(r)
        \/ SheetsCallHangs(r)

\* The event loop runs a handler whenever it has a step to take.
LiveSpec == InitMirror /\ [][NextLive]_vars /\ WF_vars(NextLive)

\* ------------------------------------------- the analytics endpoint
\* POST of src/app/api/mixpanel/track/route.ts.  A JSON value is a tagged
\* record: an object with its fields, an array with its items, or a
\* primitive token.
JsonArray(items) == [kind |-> "array", value |-> items]

FORBIDDEN_PROPERTIES ==
    {"email", "phone", "hospitalName", "hospitalId", "balance", "balanceAmount",
     "insuranceStatus", "billType", "billToken", "caseId", "name", "firstName",
     "lastName", "address", "zipCode", "city", "state"}

\* Object.entries(v) as a function from key to value: the fields of an
\* object, the items of an array under their indices, nothing for a number
\* or a boolean.
ObjectEntries(v) ==
    IF v.kind = "object" THEN v.value
    ELSE IF v.kind = "array"
    THEN [k \in {ToString(i - 1) : i \in DOMAIN v.value} |->
            v.value[CHOOSE i \in DOMAIN v.value : ToString(i - 1) = k]]
    ELSE << >>

\* sanitizeProperties: forbidden keys are skipped, a value that is an object
\* and not an array is sanitized in turn, every other value (arrays
\* included) is copied as it is.
RECURSIVE sanitizeProperties(_)
sanitizeProperties(properties) ==
    LET entries == ObjectEntries(properties)
    IN  JsonObject([k \in DOMAIN entries \ FORBIDDEN_PROPERTIES |->
                      IF entries[k].kind = "object"
                      THEN sanitizeProperties(entries[k])
                      ELSE entries[k]])

\* getRequestMetadata: what the platform knows of the caller.
requestMetadata ==
    ("$country_code" :> JsonPrimitive("US")) @@ ("$city" :> JsonPrimitive("Austin"))
    @@ ("$os" :> JsonPrimitive("Linux"))

\* The properties objects a client sends.
TrackProperties ==
    {JsonObject(EmptyObject),
     JsonObject([plan |-> JsonPrimitive("pro")]),
     JsonObject([plan |-> JsonPrimitive("pro"), email |-> JsonPrimitive("a@b.co")]),
     JsonObject([caseId |-> JsonPrimitive("c1"), balanceAmount |-> JsonPrimitive("500")]),
     JsonObject([user |-> JsonObject([plan |-> JsonPrimitive("pro"),
                                      email |-> JsonPrimitive("a@b.co")])]),
     JsonObject([user |-> JsonObject([profile |->
                    JsonObject([phone |-> JsonPrimitive("555")])])]),
     JsonObject([user |-> JsonPrimitive(JsNull)]),
     JsonObject([tags |-> JsonArray(<<JsonPrimitive("a"), JsonPrimitive("b")>>)]),
     JsonObject([contacts |-> JsonArray(<<JsonObject([email |-> JsonPrimitive("a@b.co")])>>)]),
     JsonArray(<<JsonObject([caseId |-> JsonPrimitive("c1")])>>),
     JsonPrimitive("500"),
     JsonPrimitive(JsNull),
     JsonPrimitive(Undefined)}

\* The bodies a client sends: text that is no JSON, or an object with or
\* without event, distinct_id and properties (Undefined: the field is absent).
TrackBodies ==
    {[json |-> "unparseable"]}
    \cup {[json |-> "object", event |-> event, distinct_id |-> id, properties |-> props] :
            event \in {Undefined, "", "signup"},
            id \in {Undefined, "u1"},
            props \in TrackProperties}

\* How the call of api.mixpanel.com settles: 2xx with body "1", 2xx with
\* body "0", a status outside 2xx, or a rejected fetch.
MixpanelReplies == {"1", "0", "non-2xx", "network error"}

InternalErrorResponse ==
    [status |-> 500, error |-> "Internal error in /api/mixpanel/track"]
EventRequiredResponse == [status |-> 400, error |-> "Event name required"]
TrackSuccessResponse == [status |-> 200, success |-> TRUE]

\* What the handler does before its fetch: req.json(), the event check,
\* the token check, sanitizeProperties (Object.entries of null throws) and
\* the assembly of eventData.
TrackReceive ==
    /\ trackPc = "idle"
    /\ \E body \in TrackBodies :
          /\ trackBody' = body
          /\ IF body.json = "unparseable"
             THEN /\ trackResp' = InternalErrorResponse
                  /\ trackPc' = "done"
                  /\ UNCHANGED eventData
             ELSE IF ~Truthy(body.event)
             THEN /\ trackResp' = EventRequiredResponse
                  /\ trackPc' = "done"
                  /\ UNCHANGED eventData
             ELSE IF ~mixpanelToken
             THEN /\ trackResp' = TrackSuccessResponse
                  /\ trackPc' = "done"
                  /\ UNCHANGED eventData
             ELSE IF body.properties = JsonPrimitive(JsNull)
             THEN /\ trackResp' = InternalErrorResponse
                  /\ trackPc' = "done"
                  /\ UNCHANGED eventData
             ELSE LET properties ==
                          IF body.properties = JsonPrimitive(Undefined)
                          THEN JsonObject(EmptyObject)
                          ELSE body.properties
                  IN  /\ eventData' =
                            [event |-> body.event,
                             properties |->
                                 JsonObject(
                                     sanitizeProperties(properties).value
                                     @@ requestMetadata
                                     @@ [token |-> JsonPrimitive("token"),
                                         distinct_id |->
                                             JsonPrimitive(Or(body.distinct_id, "anonymous")),
                                         time |-> JsonPrimitive("1")])]
                      /\ trackPc' = "fetch"
                      /\ UNCHANGED trackResp
    /\ UNCHANGED <<storeVars, envVars, handlerVars, tokenVars, checkVars, clientVars, mixpanelToken,
                   mixpanelReply>>

\* The fetch settles: whatever the reply, it is logged and the handler
\* answers success.
TrackFetchSettles ==
    /\ trackPc = "fetch"
    /\ \E reply \in MixpanelReplies : mixpanelReply' = reply
    /\ trackResp' = TrackSuccessResponse
    /\ trackPc' = "done"
    /\ UNCHANGED <<storeVars, envVars, handlerVars, tokenVars, checkVars, clientVars, mixpanelToken,
                   trackBody, eventData>>

\* The case-progress handlers at rest, on a configured sheet.
HandlersIdle ==
    /\ events = << >>
    /\ cases = [c \in CaseIds |-> NoCase]
    /\ storeAbortsTx = TRUE
    /\ sheetsClient = TRUE
    /\ spreadsheetId = TRUE
    /\ headers = FullHeaders
    /\ sheetRows = << >>
    /\ now = 0
    /\ pc = [r \in Requests |-> "idle"]
    /\ req = [r \in Requests |-> NoReq]
    /\ dup = [r \in Requests |-> FALSE]
    /\ existingCase = [r \in Requests |-> NoCase]
    /\ existingRow = [r \in Requests |-> 0]
    /\ toSave = [r \in Requests |-> EmptyObject]
    /\ currentRow = [r \in Requests |-> << >>]
    /\ resp = [r \in Requests |-> NoResp]
    /\ mirrored = [r \in Requests |-> "no"]

InitTrack ==
    /\ HandlersIdle
    /\ mixpanelToken \in BOOLEAN
    /\ trackPc = "idle"
    /\ trackBody = [json |-> "none"]
    /\ eventData = NoEvent
    /\ mixpanelReply = "none"
    /\ trackResp = NoResp
    /\ stepInput = NoInput
    /\ verdict = "none"
    /\ ClientIdle
    /\ TokenIdle

NextTrack == TrackReceive \/ TrackFetchSettles

TrackSpec == InitTrack /\ [][NextTrack]_vars

\* A forbidden key at some level of a JSON value.
RECURSIVE HasForbiddenKey(_)
HasForbiddenKey(v) ==
    IF v.kind = "object"
    THEN \E k \in DOMAIN v.value :
            k \in FORBIDDEN_PROPERTIES \/ HasForbiddenKey(v.value[k])
    ELSE IF v.kind = "array"
    THEN \E i \in DOMAIN v.value : HasForbiddenKey(v.value[i])
    ELSE FALSE

\* ------------------------------------------------- validateStepData alone
\* The object with the fields of d that are not Undefined (JSON has no
\* undefined: such a field is absent).
Present(d) == [f \in {g \in DOMAIN d : d[g] # Undefined} |-> d[f]]

\* The (currentStep, stepData) pairs validateStepData is given, per known
\* step: each field absent, null, of the wrong type, empty, or as required.
ValidatorInputs ==
    {[step |-> "hospital", data |-> Present([hospitalName |-> v])] :
        v \in {Undefined, JsNull, "", "500", "General"}}
    \cup {[step |-> "billType", data |-> Present([billType |-> v])] :
        v \in {Undefined, JsNull, "", "500", "ER"}}
    \cup {[step |-> "insurance", data |-> Present([insuranceStatus |-> v])] :
        v \in {Undefined, JsNull, "", "500", "insured"}}
    \cup {[step |-> "balance",
           data |-> Present([balanceAmount |-> a, inCollections |-> c])] :
        a \in {Undefined, JsNull, "abc", "0", "500"},
        c \in {Undefined, JsNull, "yes", "true"}}
    \cup {[step |-> "contact",
           data |-> Present([email |-> e, phone |-> p, agreedToTerms |-> t])] :
        e \in {Undefined, JsNull, "500", "", "bad", "a@b.co"},
        p \in {Undefined, "", "500", "555"},
        t \in {Undefined, "yes", "true"}}

InitValidate ==
    /\ HandlersIdle
    /\ mixpanelToken = FALSE
    /\ trackPc = "idle"
    /\ trackBody = [json |-> "none"]
    /\ eventData = NoEvent
    /\ mixpanelReply = "none"
    /\ trackResp = NoResp
    /\ stepInput \in ValidatorInputs
    /\ verdict = "none"
    /\ ClientIdle
    /\ TokenIdle

\* The call validateStepData(currentStep, stepData) of the handler.
Validate ==
    /\ verdict = "none"
    /\ verdict' = validateStepData(stepInput.step, stepInput.data)
    /\ UNCHANGED <<storeVars, envVars, handlerVars, tokenVars, trackVars, clientVars, stepInput>>

NextValidate == Validate

ValidateSpec == InitValidate /\ [][NextValidate]_vars

\* ------------------------------------------------- the client and its outbox
\* saveCaseProgress, the outbox in localStorage and flushOutbox of the client
\* utility (src/unnamed/part_007), against the case-progress handler run
\* here from its entry to its response in one step.  The runs last less
\* than seven days, so the age filter of loadOutbox keeps every item.
Submissions == 1..MaxSubmissions
Flushes == 1..MaxFlushes

\* What the form hands to saveCaseProgress, per submission: the payload of
\* a step, without submissionId.  The first submission is a hospital step,
\* filled in or left empty; every later one is a step of its own.
ClientPayloads(k) ==
    IF k = 1
    THEN {[caseId |-> "c1", currentStep |-> "hospital",
           stepData |-> [hospitalName |-> "General"], submissionId |-> 0],
          [caseId |-> "c1", currentStep |-> "hospital",
           stepData |-> EmptyObject, submissionId |-> 0]}
    ELSE {[caseId |-> "c1", currentStep |-> "future",
           stepData |-> [x |-> ToString(k)], submissionId |-> 0]}

\* A client that draws a new id wherever it could keep the one it has.
payloadWithFreshId(payload, fresh) == [payload EXCEPT !.submissionId = fresh]

\* { ...payload, submissionId: payload.submissionId || generateUUID() }
payloadWithId(payload, fresh) ==
    [payload EXCEPT !.submissionId = IF @ # 0 THEN @ ELSE fresh]

loadOutbox(stored) == stored

addToOutbox(stored, payload, fresh) ==
    LET withId == payloadWithId(payload, fresh)
    IN  Append(loadOutbox(stored),
               [submissionId |-> withId.submissionId, payload |-> withId,
                retryCount |-> 0])

removeFromOutbox(stored, submissionId) ==
    SelectSeq(loadOutbox(stored), LAMBDA item : item.submissionId # submissionId)

\* How a fetch of the case-progress endpoint goes: the request does not
\* get through; the handler runs and its response is lost; the handler
\* runs and answers; the handler runs while the database is unreachable;
\* the platform in front of the handler answers 502 with a body that is
\* no JSON.
FetchOutcomes ==
    {"unreachable", "response lost", "answered", "db down", "gateway error"}

\* handleCaseProgress on a payload, from entry to response: the response
\* and the tables after it.
handled(payload, dbUp) ==
    LET validation == validateStepData(payload.currentStep, payload.stepData)
        row == cases[payload.caseId]
        progress == updatedProgress(existingProgressOf(row), payload.currentStep,
                                    payload.stepData)
        success == successResponse(payload.caseId, payload.currentStep,
                                   payload.submissionId, "")
    IN  IF validation # "ok"
        THEN [response |-> validationResponse(validation),
              events |-> events, cases |-> cases]
        ELSE IF ~dbUp
        THEN [response |-> dbErrorResponse("P1001"),
              events |-> events, cases |-> cases]
        ELSE IF uniqueViolation(events, payload.submissionId)
        THEN [response |-> IF storeAbortsTx THEN dbErrorResponse(TxAbortedCode)
                           ELSE success,
              events |-> events, cases |-> cases]
        ELSE [response |-> success,
              events |-> Append(events,
                            [submissionId |-> payload.submissionId,
                             caseId |-> payload.caseId,
                             stepKey |-> payload.currentStep,
                             payload |-> payload.stepData]),
              cases |-> [cases EXCEPT ![payload.caseId] =
                            caseUpsert(row, payload.currentStep, progress,
                                       updateData(payload.currentStep,
                                                  payload.stepData))]]

\* The tables after a fetch of the given outcome.
storeAfter(payload, outcome) ==
    IF outcome \in {"response lost", "answered"} THEN handled(payload, TRUE)
    ELSE IF outcome = "db down" THEN handled(payload, FALSE)
    ELSE [response |-> NoResp, events |-> events, cases |-> cases]

\* What the client gets from the fetch: a rejection with a TypeError, a
\* response whose body parses (status and data), or one whose body does not.
replyOf(payload, outcome) ==
    IF outcome \in {"unreachable", "response lost"}
    THEN [kind |-> "TypeError", status |-> 0, data |-> [error |-> "Failed to fetch"]]
    ELSE IF outcome = "gateway error"
    THEN [kind |-> "not json", status |-> 502,
          data |-> [error |-> "Unexpected token < in JSON"]]
    ELSE LET response == storeAfter(payload, outcome).response
         IN  [kind |-> "json", status |-> response.status, data |-> response]

\* response.ok && data.success
succeeded(reply) ==
    /\ reply.kind = "json"
    /\ reply.status \in 200..299
    /\ "success" \in DOMAIN reply.data /\ reply.data.success

\* error.message.includes('fetch')
messageIncludesFetch(message) == message \in {"Failed to fetch"}

\* The calls of addToOutbox one run of saveCaseProgress makes: in the try
\* block when the response is an error with data.retryable !== false and a
\* status of 500 or more, in the catch block (which also catches what the
\* try block throws) when the error is a TypeError or its message includes
\* 'fetch'.
addsToOutbox(reply) ==
    LET inTry == IF reply.kind = "json" /\ ~succeeded(reply)
                    /\ ~("retryable" \in DOMAIN reply.data /\ ~reply.data.retryable)
                    /\ reply.status >= 500
                 THEN 1 ELSE 0
        thrown == IF reply.kind = "json" /\ succeeded(reply) THEN ""
                  ELSE reply.data.error
        inCatch == IF reply.kind = "TypeError"
                      \/ (thrown # "" /\ messageIncludesFetch(thrown))
                   THEN 1 ELSE 0
    IN  inTry + inCatch

\* A flush that writes a failed item back as it was.
retriedSameCount(item) == item

\* { ...item, retryCount: item.retryCount + 1 }
retried(item) == [item EXCEPT !.retryCount = @ + 1]

NoFlush ==
    [pc |-> "idle", loaded |-> << >>, next |-> 1, updatedOutbox |-> << >>,
     results |-> [succeeded |-> 0, failed |-> 0, skipped |-> 0]]
NoAttempt == [pc |-> "new", submissionId |-> 0]

\* The start of the client: nothing sent, nothing stored, no flush running.
ClientStart(submissions, flushRuns) ==
    /\ events = << >>
    /\ cases = [c \in CaseIds |-> NoCase]
    /\ storeAbortsTx \in BOOLEAN
    /\ sheetsClient = FALSE
    /\ spreadsheetId = FALSE
    /\ headers = NoHeaders
    /\ sheetRows = << >>
    /\ now = 0
    /\ pc = [r \in Requests |-> "idle"]
    /\ req = [r \in Requests |-> NoReq]
    /\ dup = [r \in Requests |-> FALSE]
    /\ existingCase = [r \in Requests |-> NoCase]
    /\ existingRow = [r \in Requests |-> 0]
    /\ toSave = [r \in Requests |-> EmptyObject]
    /\ currentRow = [r \in Requests |-> << >>]
    /\ resp = [r \in Requests |-> NoResp]
    /\ mirrored = [r \in Requests |-> "no"]
    /\ mixpanelToken = FALSE
    /\ trackPc = "idle"
    /\ trackBody = [json |-> "none"]
    /\ eventData = NoEvent
    /\ mixpanelReply = "none"
    /\ trackResp = NoResp
    /\ stepInput = NoInput
    /\ verdict = "none"
    /\ outbox = << >>
    /\ attempts = [k \in submissions |-> NoAttempt]
    /\ flushes = [f \in flushRuns |-> NoFlush]
    /\ uuids = 0
    /\ TokenIdle

InitClient == ClientStart(Submissions, Flushes)

\* One run of saveCaseProgress for submission k: the id is fixed, the
\* request is sent, and on its outcome the outbox gains the payload, loses
\* the item of that id, or stays as it is.
SaveCaseProgress(k) ==
    /\ attempts[k].pc = "new"
    /\ \A j \in DOMAIN attempts : j < k => attempts[j].pc # "new"
    /\ \E payload \in ClientPayloads(k), outcome \in FetchOutcomes :
          LET withId == payloadWithId(payload, uuids + 1)
              after == storeAfter(withId, outcome)
              reply == replyOf(withId, outcome)
          IN  /\ events' = after.events
              /\ cases' = after.cases
              /\ outbox' =
                    IF succeeded(reply)
                    THEN removeFromOutbox(outbox, withId.submissionId)
                    ELSE IF addsToOutbox(reply) = 0 THEN outbox
                    ELSE IF addsToOutbox(reply) = 1
                    THEN addToOutbox(outbox, withId, uuids + 2)
                    ELSE addToOutbox(addToOutbox(outbox, withId, uuids + 2),
                                     withId, uuids + 2)
              /\ attempts' = [attempts EXCEPT ![k] =
                                [pc |-> "done", submissionId |-> withId.submissionId,
                                 payload |-> withId, outcome |-> outcome, kind |-> reply.kind,
                                 status |-> reply.status, data |-> reply.data]]
    /\ uuids' = uuids + 2
    /\ UNCHANGED <<envVars, handlerVars, tokenVars, trackVars, checkVars, flushes>>

\* flushOutbox starts: it loads the outbox; an empty outbox ends it at once.
FlushStart(f) ==
    /\ flushes[f].pc = "idle"
    /\ loadOutbox(outbox) # << >>
    /\ flushes' = [flushes EXCEPT ![f] =
                      [NoFlush EXCEPT !.pc = "running", !.loaded = loadOutbox(outbox)]]
    /\ UNCHANGED <<storeVars, envVars, handlerVars, tokenVars, trackVars, checkVars, outbox,
                   attempts, uuids>>

\* One turn of the loop of flushOutbox: an item at maxRetries is skipped,
\* any other is sent; it is dropped on success and kept with one more
\* retry on an error response, on a body that does not parse and on a
\* rejected fetch.
FlushItem(f) ==
    /\ flushes[f].pc = "running"
    /\ flushes[f].next <= Len(flushes[f].loaded)
    /\ LET item == flushes[f].loaded[flushes[f].next]
       IN  IF item.retryCount >= maxRetries
           THEN /\ flushes' = [flushes EXCEPT ![f].next = @ + 1,
                                              ![f].results.skipped = @ + 1]
                /\ UNCHANGED storeVars
           ELSE \E outcome \in FetchOutcomes :
                   LET after == storeAfter(item.payload, outcome)
                       reply == replyOf(item.payload, outcome)
                   IN  /\ events' = after.events
                       /\ cases' = after.cases
                       /\ flushes' =
                             IF succeeded(reply)
                             THEN [flushes EXCEPT ![f].next = @ + 1,
                                                  ![f].results.succeeded = @ + 1]
                             ELSE [flushes EXCEPT
                                     ![f].next = @ + 1,
                                     ![f].results.failed = @ + 1,
                                     ![f].updatedOutbox = Append(@, retried(item))]
    /\ UNCHANGED <<envVars, handlerVars, tokenVars, trackVars, checkVars, outbox, attempts, uuids>>

\* The loop is over: saveOutbox(updatedOutbox) replaces the stored outbox.
FlushSave(f) ==
    /\ flushes[f].pc = "running"
    /\ flushes[f].next > Len(flushes[f].loaded)
    /\ outbox' = flushes[f].updatedOutbox
    /\ flushes' = [flushes EXCEPT ![f] = NoFlush]
    /\ UNCHANGED <<storeVars, envVars, handlerVars, tokenVars, trackVars, checkVars, attempts,
                   uuids>>

NextClient ==
    \/ \E k \in Submissions : SaveCaseProgress(k)
    \/ \E f \in Flushes : FlushStart(f) \/ FlushItem(f) \/ FlushSave(f)

ClientSpec == InitClient /\ [][NextClient]_vars

\* ------------------------------------------- submissions while a flush runs
\* The same client with a second submission, which the form may send while
\* a flush started for the first is between its load and its save.
BusySubmissions == 1..MaxBusySubmissions
BusyFlushes == 1..MaxBusyFlushes

InitBusy == ClientStart(BusySubmissions, BusyFlushes)

NextBusy ==
    \/ \E k \in BusySubmissions : SaveCaseProgress(k)
    \/ \E f \in BusyFlushes : FlushStart(f) \/ FlushItem(f) \/ FlushSave(f)

BusySpec == InitBusy /\ [][NextBusy]_vars

\* ------------------------------------------------------------- bill tokens
\* A string is kept as the sequence of its pieces: "." is a piece of its
\* own, every other piece is a run of characters without ".".  base64url
\* text has no "." in it.  The HMAC is taken as collision free: two digests
\* are equal exactly when secret and data are.
TOKEN_SECRET == "dev-secret-change-me"

TokenCaseIds == {"c1", "c2"}
IssueTimes == 1..MaxIssueTime
TokenHeader == "{alg:HS256,typ:JWT}"

base64url(text) == "b64<" \o text \o ">"

hmacSha256(secret, data) == "mac<" \o secret \o "|" \o data \o ">"

BillTokenPayloads == [caseId : TokenCaseIds, iat : IssueTimes]

JSONstringify(payload) ==
    "{caseId:" \o payload.caseId \o ",iat:" \o ToString(payload.iat) \o "}"

\* Buffer.from(s, 'base64url').toString('utf8'): the text s encodes, and
\* bytes that are no JSON text for every other s.
fromBase64url(s) ==
    LET texts == {JSONstringify(p) : p \in BillTokenPayloads}
                     \cup {TokenHeader, "{alg:none}"}
    IN  IF \E t \in texts : base64url(t) = s
        THEN CHOOSE t \in texts : base64url(t) = s
        ELSE "?"

\* JSON.parse as BillTokenPayload: the payload the text was written from;
\* a SyntaxError for text that is no JSON.
JSONparse(text) ==
    IF \E p \in BillTokenPayloads : JSONstringify(p) = text
    THEN [threw |-> "no",
          payload |-> CHOOSE p \in BillTokenPayloads : JSONstringify(p) = text]
    ELSE IF text \in {TokenHeader, "{alg:none}"}
    THEN [threw |-> "no", payload |-> [alg |-> text]]
    ELSE [threw |-> "SyntaxError"]

signBillToken(caseId, nowSeconds) ==
    LET header == base64url(TokenHeader)
        payload == [caseId |-> caseId, iat |-> nowSeconds]
        payloadStr == base64url(JSONstringify(payload))
        data == header \o "." \o payloadStr
        signature == hmacSha256(TOKEN_SECRET, data)
    IN  <<header, ".", payloadStr, ".", signature>>

\* token.split('.')
RECURSIVE split(_)
split(token) ==
    IF token = << >> THEN <<"">>
    ELSE LET rest == split(Tail(token))
         IN  IF Head(token) = "." THEN <<"">> \o rest
             ELSE <<Head(token) \o Head(rest)>> \o Tail(rest)

\* verifyBillToken without the comparison of the signature.
verifyBillTokenUnsigned(token) ==
    LET parts == split(token)
    IN  IF Len(parts) # 3 THEN [threw |-> "Invalid token format"]
        ELSE JSONparse(fromBase64url(parts[2]))

verifyBillToken(token) ==
    LET parts == split(token)
    IN  IF Len(parts) # 3 THEN [threw |-> "Invalid token format"]
        ELSE LET header == parts[1]
                 payload == parts[2]
                 signature == parts[3]
                 data == header \o "." \o payload
                 expected == hmacSha256(TOKEN_SECRET, data)
             IN  IF signature # expected
                 THEN [threw |-> "Invalid token signature"]
                 ELSE JSONparse(fromBase64url(payload))

\* The characters of a token, as one string.
RECURSIVE Text(_)
Text(token) == IF token = << >> THEN "" ELSE Head(token) \o Text(Tail(token))

\* What a holder without the secret can put into a token: pieces of the
\* tokens that were issued, encodings of texts of their own, a stray
\* character, a ".".
Pieces ==
    UNION {{e.token[i] : i \in DOMAIN e.token} : e \in issued}
        \cup {base64url(JSONstringify(p)) : p \in BillTokenPayloads}
        \cup {base64url("{alg:none}"), "x", "."}

StrayPieces == {"x", "."}

\* POST /api/upload-url signs a token for the case and returns it.
SignBillToken(c, t) ==
    /\ Cardinality(issued) < MaxIssued
    /\ Len(verified) < MaxVerifications
    /\ LET token == signBillToken(c, t)
       IN  /\ issued' = issued \cup {[caseId |-> c, token |-> token]}
           /\ billToken' = token
    /\ alterations' = 0
    /\ UNCHANGED <<storeVars, envVars, handlerVars, trackVars, checkVars, clientVars,
                   verified>>

\* The holder takes up a token that was issued before.
TakeIssued(e) ==
    /\ e \in issued
    /\ billToken # e.token
    /\ Len(verified) < MaxVerifications
    /\ billToken' = e.token
    /\ alterations' = 0
    /\ UNCHANGED <<storeVars, envVars, handlerVars, trackVars, checkVars, clientVars,
                   issued, verified>>

Altered(token) ==
    /\ billToken # NoToken
    /\ alterations < MaxAlterations
    /\ Len(verified) < MaxVerifications
    /\ billToken' = token
    /\ alterations' = alterations + 1
    /\ UNCHANGED <<storeVars, envVars, handlerVars, trackVars, checkVars, clientVars,
                   issued, verified>>

\* The holder replaces or removes a piece, inserts a character, or signs the first two
\* parts again with a secret of their own.
ReplacePiece(i, x) ==
    /\ i \in DOMAIN billToken
    /\ x \in Pieces \ {billToken[i]}
    /\ Altered([billToken EXCEPT ![i] = x])

RemovePiece(i) ==
    /\ i \in DOMAIN billToken
    /\ Altered(SubSeq(billToken, 1, i - 1) \o SubSeq(billToken, i + 1, Len(billToken)))

InsertPiece(i, x) ==
    /\ i \in 1..(Len(billToken) + 1)
    /\ Len(billToken) < MaxPieces
    /\ x \in StrayPieces
    /\ Altered(SubSeq(billToken, 1, i - 1) \o <<x>> \o SubSeq(billToken, i, Len(billToken)))

SignAgain ==
    /\ Len(split(billToken)) = 3
    /\ LET parts == split(billToken)
           signature == hmacSha256("guess", parts[1] \o "." \o parts[2])
       IN  /\ billToken[Len(billToken)] # signature
           /\ Altered([billToken EXCEPT ![Len(billToken)] = signature])

\* A call verifyBillToken(billToken).
VerifyBillToken ==
    /\ Len(verified) < MaxVerifications
    /\ \A v \in DOMAIN verified : verified[v].token # billToken
    /\ verified' = Append(verified, [token |-> billToken,
                                     result |-> verifyBillToken(billToken)])
    /\ UNCHANGED <<storeVars, envVars, handlerVars, trackVars, checkVars, clientVars,
                   issued, billToken, alterations>>

InitToken ==
    /\ HandlersIdle
    /\ PeersIdle

NextToken ==
    \/ \E c \in TokenCaseIds, t \in IssueTimes : SignBillToken(c, t)
    \/ \E e \in issued : TakeIssued(e)
    \/ \E i \in 1..MaxPieces, x \in Pieces : ReplacePiece(i, x)
    \/ \E i \in 1..MaxPieces : RemovePiece(i)
    \/ \E i \in 1..MaxPieces, x \in StrayPieces : InsertPiece(i, x)
    \/ SignAgain
    \/ VerifyBillToken

TokenSpec == InitToken /\ [][NextToken]_vars

\* ----------------------------------------------------------------- claims
MirrorStages == {"mirror", "append", "update", "write"}

\* Request r has passed the structure checks of the handler.
Received(r) == pc[r] # "idle" /\ req[r] # NoReq

\* C1: the event log never holds two rows with the same submissionId,
\* whatever the order and overlap of the requests.
C1_OneEventPerSubmissionId ==
    \A i, j \in DOMAIN events :
        events[i].submissionId = events[j].submissionId => i = j

\* A re-submission of a logged submissionId ran to its end.
C1_Witness ==
    \E r \in Requests :
        /\ dup[r]
        /\ pc[r] = "done"
        /\ uniqueViolation(events, req[r].submissionId)

C3_DuplicateAnswered200 ==
    \A r \in Requests :
        (dup[r] /\ pc[r] = "done") =>
            (resp[r].status = 200 \/ resp[r].error \in DbFaults)

\* C4: the commit of a new event for step k with payload p sets progress[k]
\* to p and keeps every other key of the stored progress with its value.
C4_PerKeyReplace ==
    [][\A r \in Requests :
          (pc[r] = "upsert" /\ pc'[r] = "mirror" /\ ~dup[r]) =>
              LET c == req[r].caseId
                  k == req[r].currentStep
              IN  /\ cases'[c].progress[k] = req[r].stepData
                  /\ \A j \in DOMAIN cases[c].progress \ {k} :
                        /\ j \in DOMAIN cases'[c].progress
                        /\ cases'[c].progress[j] = cases[c].progress[j]]_vars

\* The last event of case c among those satisfying P, as an index of events.
LastEventWith(c, k) ==
    CHOOSE i \in DOMAIN events :
        /\ events[i].caseId = c /\ events[i].stepKey = k
        /\ \A j \in DOMAIN events :
              (events[j].caseId = c /\ events[j].stepKey = k) => j <= i

LastEventOf(c) ==
    CHOOSE i \in DOMAIN events :
        /\ events[i].caseId = c
        /\ \A j \in DOMAIN events : events[j].caseId = c => j <= i

\* C5: when the committed events of a case (distinct submissionIds, no
\* re-submission) name different step keys, progress holds each of the keys
\* with the payload last committed for it, and currentStep is the step of
\* the last commit.
C5_StepKeysSurvive ==
    (\A r \in Requests : ~dup[r]) =>
        \A i, j \in DOMAIN events :
            (events[i].caseId = events[j].caseId
             /\ events[i].stepKey # events[j].stepKey) =>
                LET c == events[i].caseId
                    k == events[i].stepKey
                IN  /\ k \in DOMAIN cases[c].progress
                    /\ cases[c].progress[k] = events[LastEventWith(c, k)].payload
                    /\ cases[c].currentStep = events[LastEventOf(c)].stepKey

\* C6: when the requests carry pairwise distinct submissionIds, none of them
\* is refused for anything but its own validation or a fault of the store,
\* and once every one is answered 200 the log holds one event for each.
C6_ParallelDistinctSucceed ==
    (\A r1, r2 \in Requests :
        (Received(r1) /\ Received(r2) /\ r1 # r2) =>
            req[r1].submissionId # req[r2].submissionId) =>
        /\ \A r \in Requests :
              (Received(r) /\ pc[r] = "done") =>
                  (resp[r].status \in {200, 400} \/ resp[r].error \in DbFaults)
        /\ (\A r \in Requests : pc[r] = "done" /\ resp[r].status = 200) =>
              Len(events) = MaxRequests

\* Two first submissions of one case overlapped and both committed: the
\* second to commit had read no row of the case, and the log holds the
\* event of each.
C6_Witness ==
    \E r1, r2 \in Requests :
        /\ r1 # r2
        /\ pc[r1] = "done" /\ resp[r1].status = 200 /\ ~dup[r1]
        /\ pc[r2] = "mirror" /\ ~dup[r2]
        /\ req[r1].caseId = req[r2].caseId
        /\ ~existingCase[r2].present
        /\ Len(events) = MaxRequests
        /\ events[1].submissionId = req[r1].submissionId
        /\ events[2].submissionId = req[r2].submissionId

\* The denormalized columns tied to a step.
TiedColumns(step) ==
    CASE step = "contact" -> {"contactEmail", "contactPhone"}
      [] step = "hospital" -> {"hospitalName"}
      [] step = "balance" -> {"balanceAmount", "inCollections"}
      [] OTHER -> {}

\* C7: a denormalized column of a case changes only in the commit of a
\* submission for that case whose step the column is tied to.
C7_OnlyTiedColumnsChange ==
    [][\A c \in CaseIds, col \in DenormalizedColumns :
          cases'[c][col] # cases[c][col] =>
              \E r \in Requests :
                  /\ pc[r] = "upsert" /\ pc'[r] = "mirror"
                  /\ req[r].caseId = c
                  /\ col \in TiedColumns(req[r].currentStep)]_vars

\* A balance step was the last commit on a case whose hospitalName is set.
C7_Witness ==
    \E c \in CaseIds :
        /\ cases[c].currentStep = "balance"
        /\ cases[c].hospitalName # JsNull
        /\ cases[c].balanceAmount # JsNull

\* C8: every non-null denormalized column equals the field of progress it
\* is extracted from (stated for the cases no re-submission and no
\* overlapping commit has written: progress holds the step of each event).
C8_ColumnsCacheProgress ==
    \A c \in CaseIds :
      ((\A r \in Requests : ~dup[r])
       /\ \A i \in DOMAIN events :
             events[i].caseId = c => events[i].stepKey \in DOMAIN cases[c].progress) =>
        LET row == cases[c]
            field(step, f) ==
                IF step \in DOMAIN row.progress
                THEN Get(row.progress[step], f) ELSE Undefined
        IN  /\ row.contactEmail # JsNull => row.contactEmail = field("contact", "email")
            /\ row.contactPhone # JsNull => row.contactPhone = field("contact", "phone")
            /\ row.hospitalName # JsNull => row.hospitalName = field("hospital", "hospitalName")
            /\ row.balanceAmount # JsNull =>
                  row.balanceAmount = PrismaDecimal(field("balance", "balanceAmount"))
            /\ row.inCollections # JsNull =>
                  row.inCollections = field("balance", "inCollections")

\* C9: a step of the mirror leaves the store as it is, and a mirror call that
\* throws ends in a 200 success response with a warning while the event and
\* the case row of the request stay committed.
C9_MirrorFailureIsolated ==
    [][\A r \in Requests :
          (pc[r] \in MirrorStages /\ pc'[r] # pc[r]) =>
              /\ events' = events
              /\ cases' = cases
              /\ mirrored'[r] = "thrown" =>
                    /\ resp'[r].status = 200
                    /\ resp'[r].success
                    /\ "warning" \in DOMAIN resp'[r]
                    /\ resp'[r].warning # ""
                    /\ uniqueViolation(events', req[r].submissionId)
                    /\ cases'[req[r].caseId].present]_vars

\* A request whose mirror call threw has been answered.
C9_Witness ==
    \E r \in Requests :
        /\ pc[r] = "done"
        /\ mirrored[r] = "thrown"
        /\ resp[r].status = 200

\* C10: a success response carries a warning exactly when the mirror did not
\* write for the request.
C10_WarningIffNotWritten ==
    \A r \in Requests :
        (pc[r] = "done" /\ resp[r].status = 200) =>
            (("warning" \in DOMAIN resp[r]) <=> mirrored[r] # "wrote")

\* The fields validateStepData requires of the payload of a step.
RequiredFields(step) ==
    CASE step = "hospital" -> {"hospitalName"}
      [] step = "billType" -> {"billType"}
      [] step = "balance" -> {"balanceAmount"}
      [] step = "insurance" -> {"insuranceStatus"}
      [] step = "contact" -> {"phone"}
      [] OTHER -> {}

\* C11: a request answered 400 is answered with the reason and success:
\* false in the step that receives it, and that step changes neither the
\* event log, nor the case table, nor the sheet, nor calls the mirror; no
\* request whose payload lacks a required field of its step reaches the
\* transaction, and no event of the log holds such a payload.
C11_RejectedTouchesNothing ==
    [][\A r \in Requests :
          /\ (pc[r] = "idle" /\ pc'[r] = "done" /\ resp'[r].status = 400) =>
                /\ resp'[r].success = FALSE
                /\ resp'[r].error # ""
                /\ events' = events
                /\ cases' = cases
                /\ sheetRows' = sheetRows
                /\ mirrored'[r] = "no"
          /\ pc'[r] \in TxStages =>
                RequiredFields(req'[r].currentStep) \subseteq DOMAIN req'[r].stepData
          /\ \A i \in DOMAIN events' :
                RequiredFields(events'[i].stepKey) \subseteq DOMAIN events'[i].payload]_vars

\* A 'hospital' submission with stepData {} was answered 400 after another
\* request had committed its event.
C11_Witness ==
    \E r \in Requests :
        /\ pc[r] = "done"
        /\ resp[r].status = 400
        /\ resp[r].error = "hospitalName is required and must be a string"
        /\ Len(events) = 1

\* C12: the step that rejects a request on its input (the request never
\* reaches the transaction) answers 400 with success: false.
C12_MalformedInputIs400 ==
    [][\A r \in Requests :
          (pc[r] = "idle" /\ pc'[r] = "done") =>
              (resp'[r].status = 400 /\ resp'[r].success = FALSE)]_vars

\* C13: the step in which the transaction of a request fails answers with
\* success: false and a boolean retryable, with status 503 when retryable is
\* true and status 500 when it is false.
C13_StatusFollowsRetryable ==
    [][\A r \in Requests :
          (pc[r] \in TxStages /\ pc'[r] = "done") =>
              /\ resp'[r].success = FALSE
              /\ resp'[r].retryable \in BOOLEAN
              /\ resp'[r].status = 503 <=> resp'[r].retryable
              /\ resp'[r].status = 500 <=> ~resp'[r].retryable]_vars

\* One transaction failed retryably and one failed for good.
C13_Witness ==
    \E r1, r2 \in Requests :
        /\ pc[r1] = "done" /\ resp[r1].status = 503 /\ resp[r1].retryable
        /\ pc[r2] = "done" /\ resp[r2].status = 500 /\ ~resp[r2].retryable

\* C14: a transaction that fails on a lost connection or on its timeout
\* (the faults of DbFaults) is answered 503 with retryable: true.
C14_TransientFaultsRetryable ==
    \A r \in Requests :
        (pc[r] = "done" /\ resp[r].status >= 500 /\ resp[r].error \in DbFaults) =>
            (resp[r].status = 503 /\ resp[r].retryable)

\* Request r's submission is committed: the log holds an event with its
\* submissionId and the table a row for its case.
Committed(r, log, table) ==
    /\ \E i \in DOMAIN log : log[i].submissionId = req[r].submissionId
    /\ table[req[r].caseId].present

\* C15: a request enters the mirror only in the step that commits its
\* transaction; the mirror acts (its outcome is recorded, the sheet changes)
\* only in steps of requests that are in the mirror, whose submission is
\* committed; a request answered with a failure has made no mirror call.
C15_MirrorOnlyAfterCommit ==
    [][/\ \A r \in Requests :
             /\ (pc'[r] \in MirrorStages /\ pc[r] \notin MirrorStages) =>
                   (pc[r] = "upsert" /\ Committed(r, events', cases'))
             /\ mirrored'[r] # mirrored[r] =>
                   (pc[r] \in MirrorStages /\ Committed(r, events, cases))
             /\ (pc'[r] = "done" /\ resp'[r].status # 200) => mirrored'[r] = "no"
       /\ sheetRows' # sheetRows =>
             \E r \in Requests :
                 /\ pc[r] \in MirrorStages /\ pc'[r] = "done"
                 /\ Committed(r, events, cases)]_vars

\* One request was answered after its mirror call wrote, another after its
\* transaction failed.
C15_Witness ==
    \E r1, r2 \in Requests :
        /\ pc[r1] = "done" /\ mirrored[r1] = "wrote"
        /\ pc[r2] = "done" /\ resp[r2].status >= 500 /\ Received(r2)

\* C16: a request answered success: true with submissionId s for case c has
\* an event with submissionId s in the log and a row for c in the table.
C16_SuccessImpliesCommitted ==
    \A r \in Requests :
        (pc[r] = "done" /\ resp[r].status = 200 /\ resp[r].success) =>
            /\ \E i \in DOMAIN events : events[i].submissionId = resp[r].submissionId
            /\ cases[resp[r].caseId].present

\* A first submission was answered success while the transaction of another
\* request for the same case had failed.
C16_Witness ==
    \E r1, r2 \in Requests :
        /\ pc[r1] = "done" /\ resp[r1].status = 200 /\ ~dup[r1]
        /\ pc[r2] = "done" /\ resp[r2].status >= 500 /\ Received(r2)
        /\ req[r1].caseId = req[r2].caseId
        /\ Len(events) = 1

\* C17: a step in which a transaction fails leaves the event log and the
\* case table as they are, and every event of the log has a row for its
\* case whose progress holds the step key of the event.
C17_EventAndCaseAtomic ==
    [][/\ \A r \in Requests :
             (pc[r] \in TxStages /\ pc'[r] = "done") =>
                 (events' = events /\ cases' = cases)
       /\ \A i \in DOMAIN events' :
             /\ cases'[events'[i].caseId].present
             /\ events'[i].stepKey \in DOMAIN cases'[events'[i].caseId].progress]_vars

\* The step keys of the events of case c.
StepKeysOf(c) == {events[i].stepKey : i \in {i \in DOMAIN events : events[i].caseId = c}}

\* C18: each case row is the fold of the events of its case in commit
\* order: a case without events has no row; otherwise progress holds
\* exactly the step keys of the events, each with the payload of the last
\* event of that key, and currentStep is the step key of the last event.
C18_CaseIsFoldOfEvents ==
    \A c \in CaseIds :
        IF StepKeysOf(c) = {}
        THEN ~cases[c].present
        ELSE /\ cases[c].present
             /\ DOMAIN cases[c].progress = StepKeysOf(c)
             /\ \A k \in StepKeysOf(c) :
                   cases[c].progress[k] = events[LastEventWith(c, k)].payload
             /\ cases[c].currentStep = events[LastEventOf(c)].stepKey

\* The origin-tracking columns of the sheet.
UtmColumns == {"UTM Source", "UTM Campaign"}

\* C19: no step changes an origin-tracking cell of a row the sheet already
\* holds, and no row is removed: the UTM values of a row are those written
\* when the row was appended.
C19_UtmWrittenOnceAtCreation ==
    [][/\ Len(sheetRows') >= Len(sheetRows)
       /\ \A k \in DOMAIN sheetRows, i \in DOMAIN headers :
             headers[i] \in UtmColumns => sheetRows'[k][i] = sheetRows[k][i]]_vars

\* A 'hospital' submission with utm_source 'bing' has updated the row that a
\* submission with utm_source 'google' appended for the case.
C19_Witness ==
    /\ Len(sheetRows) = 1
    /\ Len(events) >= 2
    /\ events[1].payload = [hospitalName |-> "General", utm_source |-> "google"]
    /\ events[2].payload = [hospitalName |-> "Mercy", utm_source |-> "bing"]
    /\ pc[2] = "done" /\ mirrored[2] = "wrote"
    /\ sheetRows[1][columnMapOf(headers)["Hospital name"]] = "Mercy"
    /\ sheetRows[1][columnMapOf(headers)["UTM Source"]] = "google"

\* The columns the data of a mirror call maps to.
MappedColumns(data) ==
    {DATA_COLUMN_MAP[k] : k \in DOMAIN data \cap DOMAIN DATA_COLUMN_MAP}

\* C20: the write of updateRow changes cells of the row it updates only,
\* and of that row only cells of the columns the data of the call maps to
\* (the fields of the step, 'Last Done Page' and 'LP Input Time').
C20_UpdateKeepsOtherColumns ==
    [][\A r \in DOMAIN pc :
          (pc[r] = "write" /\ pc'[r] = "done") =>
              \A k \in DOMAIN sheetRows, i \in DOMAIN headers :
                  sheetRows'[k][i] # sheetRows[k][i] =>
                      /\ k = existingRow[r] - 1
                      /\ headers[i] \in MappedColumns(toSave[r])]_vars

\* C21: a request with a step name validateStepData has no case for and an
\* object as stepData is not rejected (it ends in 200 unless the store
\* fails or its submissionId is a re-submission), and the step that commits
\* it stores its payload under the step name in progress.
C21_UnknownStepAccepted ==
    [][\A r \in Requests :
          /\ (pc[r] = "upsert" /\ pc'[r] = "mirror"
               /\ req[r].currentStep \notin KnownSteps) =>
                 /\ req[r].currentStep \in DOMAIN cases'[req[r].caseId].progress
                 /\ cases'[req[r].caseId].progress[req[r].currentStep] = req[r].stepData
          /\ (pc'[r] = "done" /\ Received(r) /\ ~dup[r]
               /\ req[r].currentStep \notin KnownSteps) =>
                 (resp'[r].status = 200 \/ resp'[r].error \in DbFaults)
          /\ (pc[r] = "idle" /\ pc'[r] = "done" /\ req'[r] # NoReq) =>
                 req'[r].currentStep \in KnownSteps]_vars

\* A submission of step 'future' was answered 200 and progress holds its
\* payload under 'future'.
C21_Witness ==
    \E r \in Requests :
        /\ pc[r] = "done" /\ resp[r].status = 200
        /\ req[r].currentStep = "future"
        /\ "future" \in DOMAIN cases[req[r].caseId].progress
        /\ cases[req[r].caseId].progress["future"] = [x |-> "1"]

\* C22: a request whose transaction has committed (it is in the mirror) is
\* eventually answered.
C22_CommittedEventuallyAnswered ==
    \A r \in MirrorCalls : (pc[r] = "mirror") ~> (pc[r] = "done")

\* C27: a success response carries the submissionId of the body when the
\* body has one, and otherwise an id no other request carries; a request
\* sent without submissionId is never taken for a re-submission, and its
\* success means the log holds an event with the id it was given.
C27_SubmissionIdEchoedOrFresh ==
    \A r \in Requests :
        /\ (pc[r] = "done" /\ resp[r].status = 200) =>
              /\ req[r].supplied # 0 => resp[r].submissionId = req[r].supplied
              /\ req[r].supplied = 0 =>
                    /\ resp[r].submissionId \notin ClientSids
                    /\ \A q \in Requests \ {r} :
                          Received(q) => req[q].submissionId # resp[r].submissionId
                    /\ \E i \in DOMAIN events :
                          /\ events[i].submissionId = resp[r].submissionId
                          /\ events[i].caseId = req[r].caseId
                          /\ events[i].stepKey = req[r].currentStep
        /\ (Received(r) /\ req[r].supplied = 0) => ~dup[r]

\* Two requests without submissionId for the same case and step were both
\* answered 200 and the log holds two events.
C27_Witness ==
    /\ \A r \in Requests :
          pc[r] = "done" /\ resp[r].status = 200 /\ req[r].supplied = 0
    /\ req[1].caseId = req[2].caseId
    /\ req[1].currentStep = req[2].currentStep
    /\ Len(events) = 2
    /\ events[1].payload = events[2].payload

\* C24: the event handed to Mixpanel holds none of the forbidden PII/PHI
\* keys at any level of its properties.
C24_NoForbiddenKeyForwarded ==
    eventData # NoEvent => ~HasForbiddenKey(eventData.properties)

\* C25: a track request whose body names a non-empty event is answered
\* 200 {success: true}, whatever Mixpanel does.
C25_NamedEventAnswered200 ==
    (trackPc = "done" /\ trackBody.json = "object" /\ Truthy(trackBody.event))
        => trackResp = TrackSuccessResponse

NonEmptyString(v) == TypeOf(v) = "string" /\ v # ""
HasField(data, f) == f \in DOMAIN data

\* The payloads the sentence on known steps names as accepted.
AcceptedAsStated(step, data) ==
    CASE step = "hospital" -> NonEmptyString(Get(data, "hospitalName"))
      [] step = "billType" -> NonEmptyString(Get(data, "billType"))
      [] step = "balance" ->
            /\ TypeOf(Get(data, "balanceAmount")) = "number"
            /\ HasField(data, "inCollections")
                  => TypeOf(data.inCollections) = "boolean"
      [] step = "insurance" -> NonEmptyString(Get(data, "insuranceStatus"))
      [] step = "contact" ->
            /\ NonEmptyString(Get(data, "phone"))
            /\ HasField(data, "email") => EmailRegexTest(data.email)

\* The checks of a step in their order, each with what fails it and the
\* reason reported: for 'contact' the e-mail type, the e-mail pattern (an
\* empty e-mail passes), the phone, then agreedToTerms.
ChecksOf(step, data) ==
    CASE step = "hospital" ->
            <<[fails |-> ~NonEmptyString(Get(data, "hospitalName")),
               reason |-> "hospitalName is required and must be a string"]>>
      [] step = "billType" ->
            <<[fails |-> ~NonEmptyString(Get(data, "billType")),
               reason |-> "billType is required and must be a string"]>>
      [] step = "balance" ->
            <<[fails |-> TypeOf(Get(data, "balanceAmount")) # "number",
               reason |-> "balanceAmount is required and must be a number"],
              [fails |-> HasField(data, "inCollections")
                         /\ TypeOf(Get(data, "inCollections")) # "boolean",
               reason |-> "inCollections must be a boolean if provided"]>>
      [] step = "insurance" ->
            <<[fails |-> ~NonEmptyString(Get(data, "insuranceStatus")),
               reason |-> "insuranceStatus is required and must be a string"]>>
      [] step = "contact" ->
            <<[fails |-> HasField(data, "email")
                         /\ TypeOf(Get(data, "email")) # "string",
               reason |-> "email must be a string if provided"],
              [fails |-> NonEmptyString(Get(data, "email"))
                         /\ ~EmailRegexTest(Get(data, "email")),
               reason |-> "email must be a valid email address"],
              [fails |-> ~NonEmptyString(Get(data, "phone")),
               reason |-> "phone is required and must be a string"],
              [fails |-> HasField(data, "agreedToTerms")
                         /\ TypeOf(Get(data, "agreedToTerms")) # "boolean",
               reason |-> "agreedToTerms must be a boolean if provided"]>>

\* C26 (as stated): for a known step, validateStepData accepts exactly the
\* payloads the sentence names: for 'contact', a non-empty string phone
\* and, when an email field is present, an email matching the pattern.
C26_AcceptsExactlyAsStated ==
    (verdict # "none" /\ stepInput.step \in KnownSteps)
        => (verdict = "ok" <=> AcceptedAsStated(stepInput.step, stepInput.data))

\* C26 (amended): for a known step, validateStepData accepts exactly the
\* payloads that fail none of the step's checks, where 'contact' also accepts
\* an empty e-mail string and also checks that agreedToTerms, if present,
\* is a boolean; on rejection it returns the reason of the first failing
\* check in the step's order.
C26_FirstFailingCheckDecides ==
    (verdict # "none" /\ stepInput.step \in KnownSteps)
        => LET checks == ChecksOf(stepInput.step, stepInput.data)
               failing == {i \in DOMAIN checks : checks[i].fails}
           IN  IF failing = {} THEN verdict = "ok"
               ELSE \E i \in failing :
                       /\ \A j \in failing : i <= j
                       /\ verdict = checks[i].reason

\* A contact payload with a malformed e-mail and no phone was rejected for
\* its e-mail, the earlier of its two failing checks.
C26_Witness ==
    /\ stepInput.step = "contact"
    /\ Get(stepInput.data, "email") = "bad"
    /\ ~HasField(stepInput.data, "phone")
    /\ verdict = "email must be a valid email address"

\* The events the log holds for submission k.
EventsOf(k) ==
    {i \in DOMAIN events :
        \E p \in ClientPayloads(k) :
            events[i].stepKey = p.currentStep /\ events[i].payload = p.stepData}

\* The outbox items a running flush still holds: those it has not come to
\* and those it will write back.
HeldBy(f) ==
    {flushes[f].loaded[i] : i \in flushes[f].next..Len(flushes[f].loaded)}
    \cup {flushes[f].updatedOutbox[i] : i \in DOMAIN flushes[f].updatedOutbox}
StoredItems == {outbox[i] : i \in DOMAIN outbox}

\* The request of submission k failed in a way that is worth a retry: the
\* fetch was rejected, or the handler answered 503 with retryable: true.
FailedTransiently(k) ==
    /\ attempts[k].pc = "done"
    /\ \/ attempts[k].kind = "TypeError"
       \/ /\ attempts[k].kind = "json"
          /\ attempts[k].status = 503
          /\ attempts[k].data.retryable

\* C23: a submission whose request failed transiently is not abandoned:
\* until the log holds its event, it is in the stored outbox or in the hands
\* of a running flush.  (Once it is in neither, no flush sends it again, so
\* it is never stored however the network and the store recover.)
C23_TransientFailureNotAbandoned ==
    \A k \in DOMAIN attempts :
        FailedTransiently(k) =>
            \/ EventsOf(k) # {}
            \/ \E item \in StoredItems \cup UNION {HeldBy(f) : f \in DOMAIN flushes} :
                  item.submissionId = attempts[k].submissionId

\* C28: every outbox item, stored or held by a flush, carries the
\* submissionId its submission was first sent with, in the item and in its
\* payload, and the log holds at most one event per submission.
C28_ResendKeepsIdOneEvent ==
    \A k \in DOMAIN attempts :
        /\ Cardinality(EventsOf(k)) <= 1
        /\ \A item \in StoredItems \cup UNION {HeldBy(f) : f \in DOMAIN flushes} :
              item.payload.stepData \in {p.stepData : p \in ClientPayloads(k)}
                  => /\ attempts[k].pc = "done"
                     /\ item.submissionId = attempts[k].submissionId
                     /\ item.payload.submissionId = attempts[k].submissionId

\* The response to a request that had committed was lost, the item was
\* sent again by a flush and answered 200, and the log holds one event.
C28_Witness ==
    /\ attempts[1].pc = "done"
    /\ attempts[1].outcome = "response lost"
    /\ \E f \in DOMAIN flushes : flushes[f].results.succeeded = 1
    /\ Cardinality(EventsOf(1)) = 1

\* C29: a run of saveCaseProgress appends the submission to the outbox,
\* once, exactly when the fetch was rejected or the response has a status
\* of 500 or more and no retryable: false; on success it removes the item
\* of that submissionId; otherwise it leaves the outbox as it is.
C29_QueuedExactlyOnRetryableFailure ==
    [][\A k \in DOMAIN attempts :
          (attempts[k].pc = "new" /\ attempts'[k].pc = "done") =>
             LET a == attempts'[k]
                 flaggedFalse == /\ a.kind = "json"
                                 /\ "retryable" \in DOMAIN a.data
                                 /\ ~a.data.retryable
             IN  IF a.kind = "TypeError" \/ (a.status >= 500 /\ ~flaggedFalse)
                 THEN outbox' = Append(outbox, [submissionId |-> a.submissionId,
                                                payload |-> a.payload,
                                                retryCount |-> 0])
                 ELSE IF a.status \in 200..299
                 THEN outbox' = SelectSeq(outbox,
                                   LAMBDA item : item.submissionId # a.submissionId)
                 ELSE outbox' = outbox]_vars

\* C30: a running flush takes the loaded items one by one and then ends by
\* storing what it kept; a failed resend keeps the item with its retryCount
\* one higher, a successful resend and an item at maxRetries keep nothing
\* (the item at maxRetries is not sent), and no stored item has a
\* retryCount above maxRetries.
C30_FlushOnePassBoundedRetries ==
    [][/\ \A f \in DOMAIN flushes :
            LET a == flushes[f]
                b == flushes'[f]
            IN  (a.pc = "running" /\ b # a) =>
                   IF a.next <= Len(a.loaded)
                   THEN LET item == a.loaded[a.next]
                        IN  /\ b.pc = "running"
                            /\ b.loaded = a.loaded
                            /\ b.next = a.next + 1
                            /\ outbox' = outbox
                            /\ \/ /\ item.retryCount < maxRetries
                                  /\ b.results = [a.results EXCEPT !.failed = @ + 1]
                                  /\ b.updatedOutbox =
                                        Append(a.updatedOutbox,
                                               [item EXCEPT !.retryCount = @ + 1])
                               \/ /\ item.retryCount < maxRetries
                                  /\ b.results = [a.results EXCEPT !.succeeded = @ + 1]
                                  /\ b.updatedOutbox = a.updatedOutbox
                                  /\ \E i \in DOMAIN events' :
                                        events'[i].submissionId = item.submissionId
                               \/ /\ item.retryCount >= maxRetries
                                  /\ b.results = [a.results EXCEPT !.skipped = @ + 1]
                                  /\ b.updatedOutbox = a.updatedOutbox
                                  /\ events' = events
                   ELSE /\ b.pc = "idle"
                        /\ outbox' = a.updatedOutbox
       /\ \A i \in DOMAIN outbox' : outbox'[i].retryCount <= maxRetries]_vars

\* A flush has come to an item at maxRetries, skipped it, and is about to
\* store an outbox without it.
C30_Witness ==
    \E f \in DOMAIN flushes :
        /\ flushes[f].pc = "running"
        /\ flushes[f].next > Len(flushes[f].loaded)
        /\ flushes[f].results.skipped = 1
        /\ flushes[f].loaded[1].retryCount = maxRetries
        /\ flushes[f].updatedOutbox = << >>

\* C31: when a flush ends, every stored item it had not loaded, and whose
\* submission the log does not hold, is still in the stored outbox.
C31_FlushKeepsItemsItDidNotLoad ==
    [][\A f \in DOMAIN flushes :
          (flushes[f].pc = "running" /\ flushes'[f].pc = "idle") =>
             \A i \in DOMAIN outbox :
                (/\ \A j \in DOMAIN flushes[f].loaded :
                       flushes[f].loaded[j].submissionId # outbox[i].submissionId
                 /\ \A e \in DOMAIN events :
                       events[e].submissionId # outbox[i].submissionId)
                => \E n \in DOMAIN outbox' :
                      outbox'[n].submissionId = outbox[i].submissionId]_vars

\* The index of a column of the sheet.
ColumnOf(name) == columnMapOf(headers)[name]

\* The payload of the event a mirror call follows.
PayloadOf(r) ==
    events[CHOOSE i \in DOMAIN events :
              events[i].submissionId = req[r].submissionId].payload

\* Mirror call r completes a write in this step: its append or its update
\* returns without throwing.
WritesNow(r) == mirrored[r] # "wrote" /\ mirrored'[r] = "wrote"

\* The data row that write leaves: the appended one, or the one updated.
RowWritten(r) ==
    IF pc[r] = "append" THEN sheetRows'[Len(sheetRows')]
    ELSE sheetRows'[existingRow[r] - 1]

\* C32: the sheet holds at most one data row per caseId.
C32_OneRowPerCase ==
    \A c \in CaseIds :
        Cardinality({k \in DOMAIN sheetRows : sheetRows[k][ColumnOf("Case ID")] = c}) <= 1

\* C33: when an update writes its row, every cell another update has
\* written since this one read the row is kept, unless this update's own
\* step maps to the cell's column: of two overlapping updates for different
\* steps, the later write does not take back what the earlier wrote.
C33_OverlappingUpdatesBothKept ==
    [][\A r \in DOMAIN pc :
          (pc[r] = "write" /\ WritesNow(r)) =>
              \A i \in DOMAIN headers :
                  (/\ sheetRows[existingRow[r] - 1][i] # currentRow[r][i]
                   /\ headers[i] \notin MappedColumns(toSave[r]))
                  => RowWritten(r)[i] = sheetRows[existingRow[r] - 1][i]]_vars

\* The write of call r has put its data into the row (the column mapping
\* was there): the row carries the call's time stamp.
Mapped(r) == RowWritten(r)[ColumnOf("LP Input Time")] = toSave[r].lpInputTime

\* C34: a write for a balance step that puts its data into the row leaves
\* the submitted amount and the submitted collections flag in the row, as
\* strings: "0" for 0, "no" for false.
C34_SubmittedValuesWritten ==
    [][\A r \in DOMAIN pc :
          (WritesNow(r) /\ Mapped(r) /\ req[r].currentStep = "balance") =>
              /\ RowWritten(r)[ColumnOf("Balance amount")] = PayloadOf(r).balanceAmount
              /\ RowWritten(r)[ColumnOf("In collections")] =
                    (IF PayloadOf(r).inCollections = "true" THEN "yes" ELSE "no")]_vars

\* C35: an appended row that holds the data of its call holds the creation
\* timestamp of the call in a column other than 'LP Input Time'.
C35_AppendedRowHasCreatedAt ==
    [][\A r \in DOMAIN pc :
          (WritesNow(r) /\ Mapped(r) /\ pc[r] = "append") =>
              \E i \in DOMAIN headers :
                  /\ headers[i] # "LP Input Time"
                  /\ RowWritten(r)[i] = toSave[r].createdAt]_vars

\* C36: a write, append or update, leaves the time stamp of its call in
\* 'LP Input Time' of the row.
C36_WriteStampsLpInputTime ==
    [][\A r \in DOMAIN pc :
          WritesNow(r) =>
              RowWritten(r)[ColumnOf("LP Input Time")] = toSave[r].lpInputTime]_vars


\* The token was issued as it stands.
IssuedAs(token) == {e \in issued : Text(e.token) = Text(token)}

\* C37: a token signBillToken returned for caseId c verifies to a payload
\* with caseId c, and every token that has not three parts or differs from
\* the tokens signBillToken returned, in header, payload or signature, makes
\* verifyBillToken throw.
C37_TokensRoundTripAndBind ==
    \A v \in DOMAIN verified :
        LET token == verified[v].token
            result == verified[v].result
        IN  /\ \A e \in IssuedAs(token) :
                   result.threw = "no" /\ result.payload.caseId = e.caseId
            /\ Len(split(token)) # 3 => result.threw # "no"
            /\ IssuedAs(token) = {} => result.threw # "no"

\* An issued token was accepted for its case, and a token of three parts
\* made of the payload of one issued token and the signature of another
\* was turned down.
C37_Witness ==
    /\ \E v \in DOMAIN verified :
           /\ IssuedAs(verified[v].token) # {}
           /\ verified[v].result.threw = "no"
    /\ \E v \in DOMAIN verified :
           /\ IssuedAs(verified[v].token) = {}
           /\ Len(split(verified[v].token)) = 3
           /\ \E e1, e2 \in issued :
                  /\ e1 # e2
                  /\ split(verified[v].token)[2] = e1.token[3]
                  /\ split(verified[v].token)[3] = e2.token[5]
           /\ verified[v].result.threw = "Invalid token signature"

====
